---- MODULE Spec2Model ----
(***************************************************************************)
(* Model of the sentinel reverse proxy (bpradana/sentinel):                *)
(*   - the load balancers (internal/loadbalancer),                         *)
(*   - the health checker (internal/health),                               *)
(*   - the proxy server's main handler, retry handler and hot reload       *)
(*     (internal/proxy/server.go, cmd/proxy/main.go).                      *)
(* Strings that the code inspects byte by byte (client addresses) are      *)
(* sequences of one-character strings; other strings are TLA+ strings.     *)
(***************************************************************************)
EXTENDS Integers, Sequences, FiniteSets, TLC

(***************************************************************************)
(* Bounds of the model.                                                    *)
(***************************************************************************)
\* longest target list handed to SelectTarget in the balancer specification
MaxTargets == 3
\* number of SelectTarget calls made on one balancer
MaxSelections == 4
\* number of UpdateTarget calls made on one balancer
MaxUpdates == 2
\* number of ticks of the health checker
MaxTicks == 5
MaxReads == 1
\* largest retry_policy.attempts of the retry specification
MaxAttempts == 3
\* number of requests the proxy serves
NumRequests == 2
\* number of configuration write events the watcher handles
MaxEvents == 2

(***************************************************************************)
(* Generic helpers.                                                        *)
(***************************************************************************)
Range(s) == {s[i] : i \in 1..Len(s)}

\* strings.Index(s, c) for a one-byte separator: 0-based index, -1 if absent
IndexOf(s, c) ==
  IF \E i \in 1..Len(s) : s[i] = c
  THEN (CHOOSE i \in 1..Len(s) : s[i] = c /\ \A j \in 1..(i-1) : s[j] # c) - 1
  ELSE -1

\* strings.LastIndex(s, c): 0-based index of the last occurrence, -1 if absent
LastIndexOf(s, c) ==
  IF \E i \in 1..Len(s) : s[i] = c
  THEN (CHOOSE i \in 1..Len(s) : s[i] = c /\ \A j \in (i+1)..Len(s) : s[j] # c) - 1
  ELSE -1

\* strings.HasPrefix, strings.HasSuffix, strings.TrimPrefix, strings.TrimSuffix
HasPrefix(s, p) == Len(s) >= Len(p) /\ SubSeq(s, 1, Len(p)) = p
HasSuffix(s, p) == Len(s) >= Len(p) /\ SubSeq(s, Len(s) - Len(p) + 1, Len(s)) = p
TrimPrefix(s, p) == IF HasPrefix(s, p) THEN SubSeq(s, Len(p) + 1, Len(s)) ELSE s
TrimSuffix(s, p) == IF HasSuffix(s, p) THEN SubSeq(s, 1, Len(s) - Len(p)) ELSE s

\* strings.TrimSpace restricted to the blank character
RECURSIVE TrimLeft(_)
TrimLeft(s) == IF Len(s) > 0 /\ s[1] = " " THEN TrimLeft(Tail(s)) ELSE s
RECURSIVE TrimRight(_)
TrimRight(s) ==
  IF Len(s) > 0 /\ s[Len(s)] = " " THEN TrimRight(SubSeq(s, 1, Len(s) - 1)) ELSE s
TrimSpace(s) == TrimRight(TrimLeft(s))

\* the byte value of each character used in client addresses
ByteOf(c) ==
  CASE c = "0" -> 48 [] c = "1" -> 49 [] c = "2" -> 50 [] c = "3" -> 51
    [] c = "4" -> 52 [] c = "5" -> 53 [] c = "6" -> 54 [] c = "7" -> 55
    [] c = "8" -> 56 [] c = "9" -> 57 [] c = "." -> 46 [] c = ":" -> 58
    [] c = "," -> 44 [] c = " " -> 32

\* bitwise exclusive or of two naturals below 2^n
RECURSIVE XorBits(_, _, _)
XorBits(a, b, n) ==
  IF n = 0 THEN 0
  ELSE (((a % 2) + (b % 2)) % 2) + 2 * XorBits(a \div 2, b \div 2, n - 1)

(***************************************************************************)
(* hash/fnv New32a as used by IPHash.hashIP.  A 32-bit value is kept as    *)
(* two 16-bit halves [hi, lo] so that no intermediate product leaves the   *)
(* range of 32-bit signed integers; all arithmetic is modulo 2^32.         *)
(* offset basis 2166136261 = 0x811C9DC5, prime 16777619 = 2^24 + 403.      *)
(***************************************************************************)
FnvOffset == [hi |-> 33052, lo |-> 40389]

FnvStep(h, byte) ==
  LET lo1   == XorBits(h.lo, byte, 16)
      prod  == lo1 * 403
      carry == prod \div 65536
  IN  [lo |-> prod % 65536,
       hi |-> (h.hi * 403 + carry + (lo1 % 256) * 256) % 65536]

RECURSIVE FnvFold(_, _)
FnvFold(h, s) == IF s = <<>> THEN h ELSE FnvFold(FnvStep(h, ByteOf(Head(s))), Tail(s))

\* IPHash.hashIP
hashIP(ip) == FnvFold(FnvOffset, ip)

\* hash % uint32(k) for a hash kept in halves
HashMod(h, k) == (((h.hi % k) * (65536 % k)) + (h.lo % k)) % k


(***************************************************************************)
(* State.                                                                  *)
(***************************************************************************)
VARIABLES
  \* --- one load balancer driven directly (internal/loadbalancer) ---
  lbKind,      \* strategy of the balancer: the concrete type behind LoadBalancer
  lbTargets,   \* the []*Target handed to SelectTarget: [URL, IsHealthy, Connections]
  lbCurrent,   \* RoundRobin.current
  lbN,         \* number of SelectTarget calls made so far
  lbUpd,       \* number of UpdateTarget calls made so far
  lbLast,      \* request and result of the latest SelectTarget call
  lbCounts,    \* per target index, how often it was returned
  lbSent       \* the <<request, target index>> pairs an ip_hash balancer selected

VARIABLES
  \* --- the health checker (internal/health) ---
  hEnabled,    \* checker.cfg.Enabled
  htargets,    \* checker.targets: URL -> [Status, ConsecutiveFailures, ConsecutiveSuccesses]
  hPending,    \* URLs whose probe goroutine of the running tick has not stored yet
  hTicks,      \* number of ticks performHealthChecks has started
  hHist,       \* per stored URL, the probe outcomes folded into its stored state
  hExisting,   \* per probe goroutine that has read c.targets and not stored: its "existing"
  hSeen        \* what the GetHealth calls made so far returned, in order

VARIABLES
  \* --- one retryHandler.ServeHTTP call (internal/proxy/server.go) ---
  rtAttempts,  \* retryPolicy.Attempts
  rtState,     \* loop position, retryResponseWriter and the client's writer
  rtServed,    \* the backend outcomes of the attempts made, in order
  rtCtx        \* the request context: its deadline and what ran after it passed

VARIABLES
  \* --- the proxy server and the configuration watcher ---
  snaps,         \* the *config.Config objects built so far, in order of publication
  cfg,           \* server.cfg: the position in snaps of the live configuration
  loadBalancers, \* server.loadBalancers: upstream name -> position in lbs
  lbMapGen,      \* the configuration the current loadBalancers map was made for
  lbs,           \* the LoadBalancer objects built so far: [kind, current, gen]
  reqs,          \* per request, the locals of its run of the main handler
  wpc,           \* position of the watcher goroutine
  wLog           \* outcome of each write event handled, in order

VARIABLES
  \* --- one RateLimitMiddleware ---
  rlCfg,       \* RateLimitMiddleware.config
  rlLimiters,  \* RateLimitMiddleware.limiters: key -> tokens of the bucket, in halves
  rlNow,       \* the time, in half seconds
  rlLog        \* per request handled, in order: its key and its answer

VARIABLES
  \* --- one AuthMiddleware ---
  auCfg,       \* AuthMiddleware.config
  auLog        \* per request handled, in order: the request and its answer

VARIABLES
  \* --- the TLS Manager ---
  tlsCfg,      \* Manager.cfg
  tlsCerts,    \* Manager.certificates: host -> the certificate stored for it
  tlsLog,      \* per handshake, in order: the SNI and what GetCertificate returned
  tlsReload    \* the position of a ReloadCertificates call and the files it finds

VARIABLES
  \* --- the proxy server's life cycle (internal/proxy/server.go) ---
  srvCfg,        \* server.cfg
  srvMgrEnabled, \* server.tlsManager: Manager.cfg.Enabled
  srvRunning,    \* server.running
  srvShutdown,   \* server.shutdown: the channel, "open" or "closed"
  srvHTTP,       \* server.httpServer: NoServer (nil) or the *http.Server
  srvHTTPS,      \* server.httpsServer
  srvServing,    \* the *http.Server objects whose listener accepts connections
  srvPanic,      \* a call panicked
  srvLog         \* per call of Start, Shutdown, UpdateConfig, in order

VARIABLES
  \* --- the health checker's life cycle (Start, run, Stop) ---
  ckStarted,   \* Start has been called
  ckLoop,      \* the run goroutine: "none", "running" or "exited"
  ckStopCh,    \* checker.stopCh: "open" or "closed"
  ckDone,      \* checker.done is closed
  ckStop       \* the caller of Stop: "none", "waiting" (at <-c.done) or "returned"

VARIABLES
  \* --- one RateLimitMiddleware used by concurrent requests and Cleanup ---
  glLimiters,  \* RateLimitMiddleware.limiters: key -> the limiter (position in glObjs)
  glObjs,      \* the rate.Limiter objects made so far: [key, tokens]
  glCallers,   \* per request goroutine: its position in Handle and what it holds
  glCleanup,   \* the Cleanup call: its position in the loop over the map
  glDeleted    \* per delete of Cleanup, in order: the limiter and its tokens then

lbvars == <<lbKind, lbTargets, lbCurrent, lbN, lbUpd, lbLast, lbCounts, lbSent>>
rlvars == <<rlCfg, rlLimiters, rlNow, rlLog>>
avars == <<auCfg, auLog>>
tvars == <<tlsCfg, tlsCerts, tlsLog, tlsReload>>
hvars == <<hEnabled, htargets, hPending, hTicks, hHist, hExisting, hSeen>>

rtvars == <<rtAttempts, rtState, rtServed, rtCtx>>
pvars == <<snaps, cfg, loadBalancers, lbMapGen, lbs, reqs, wpc, wLog>>

svars == <<srvCfg, srvMgrEnabled, srvRunning, srvShutdown, srvHTTP, srvHTTPS, srvServing, srvPanic, srvLog>>

cvars == <<ckStarted, ckLoop, ckStopCh, ckDone, ckStop>>

gvars == <<glLimiters, glObjs, glCallers, glCleanup, glDeleted>>

vars == <<lbvars, hvars, rtvars, pvars, rlvars, avars, tvars, svars, cvars, gvars>>

(***************************************************************************)
(* internal/loadbalancer: the three strategies.                            *)
(* A selection result is [err, idx]: err = "" and idx the 1-based position *)
(* of the returned *Target in the list, or err # "" and idx = 0 (nil).     *)
(***************************************************************************)
Strategies == {"round_robin", "least_connections", "ip_hash"}

\* DefaultFactory.Create: the concrete balancer built for a strategy string
FactoryCreate(strategy) ==
  CASE strategy = "round_robin" -> "round_robin"
    [] strategy = "least_connections" -> "least_connections"
    [] strategy = "ip_hash" -> "ip_hash"
    [] OTHER -> "round_robin"

\* the "filter healthy targets" loop shared by the three SelectTarget methods:
\* the positions of the targets with IsHealthy, in list order
\* the filter loop without its IsHealthy test
HealthyFromAll(targets, i) == [k \in 1..(Len(targets) - i + 1) |-> k + i - 1]

RECURSIVE HealthyFrom(_, _)
HealthyFrom(targets, i) ==
  IF i > Len(targets) THEN <<>>
  ELSE (IF targets[i].IsHealthy THEN <<i>> ELSE <<>>) \o HealthyFrom(targets, i + 1)

HealthyTargets(targets) == HealthyFrom(targets, 1)

\* RoundRobin.SelectTarget without the rr.current++
RoundRobinSelectStuck(targets, current) ==
  LET healthy == HealthyTargets(targets) IN
  IF Len(targets) = 0
  THEN [err |-> "no targets available", idx |-> 0, current |-> current]
  ELSE IF Len(healthy) = 0
  THEN [err |-> "no healthy targets available", idx |-> 0, current |-> current]
  ELSE [err |-> "", idx |-> healthy[(current % Len(healthy)) + 1],
        current |-> current]

\* RoundRobin.SelectTarget: [err, idx, current]
RoundRobinSelect(targets, current) ==
  LET healthy == HealthyTargets(targets) IN
  IF Len(targets) = 0
  THEN [err |-> "no targets available", idx |-> 0, current |-> current]
  ELSE IF Len(healthy) = 0
  THEN [err |-> "no healthy targets available", idx |-> 0, current |-> current]
  ELSE [err |-> "", idx |-> healthy[(current % Len(healthy)) + 1],
        current |-> current + 1]

\* the "find target with least connections" loop of LeastConnections.SelectTarget
RECURSIVE LeastLoop(_, _, _, _, _)
LeastLoop(targets, healthy, k, minConnections, selected) ==
  IF k > Len(healthy) THEN selected
  ELSE LET c == targets[healthy[k]].Connections IN
       IF minConnections = -1 \/ c < minConnections
       THEN LeastLoop(targets, healthy, k + 1, c, healthy[k])
       ELSE LeastLoop(targets, healthy, k + 1, minConnections, selected)

\* LeastConnections.SelectTarget: [err, idx]
LeastConnSelect(targets) ==
  LET healthy == HealthyTargets(targets) IN
  IF Len(targets) = 0
  THEN [err |-> "no targets available", idx |-> 0]
  ELSE IF Len(healthy) = 0
  THEN [err |-> "no healthy targets available", idx |-> 0]
  ELSE [err |-> "", idx |-> LeastLoop(targets, healthy, 1, -1, 0)]

\* net.SplitHostPort for the address forms of the model: [host, err]
SplitHostPort(addr) ==
  LET i == LastIndexOf(addr, ":") IN
  IF i < 0 THEN [host |-> <<>>, err |-> "missing port in address"]
  ELSE IF IndexOf(addr, ":") # i
  THEN [host |-> <<>>, err |-> "too many colons in address"]
  ELSE [host |-> SubSeq(addr, 1, i), err |-> ""]

\* a client address that keeps the port of the socket address
getClientIPKeepPort(req) ==
  IF req.XRealIP # <<>> THEN req.XRealIP
  ELSE IF req.XForwardedFor # <<>>
  THEN LET i == IndexOf(req.XForwardedFor, ",") IN
       TrimSpace(IF i < 0 THEN req.XForwardedFor
                 ELSE SubSeq(req.XForwardedFor, 1, i))
  ELSE req.RemoteAddr

\* IPHash.getClientIP
getClientIP(req) ==
  IF req.XRealIP # <<>> THEN req.XRealIP
  ELSE IF req.XForwardedFor # <<>>
  THEN LET i == IndexOf(req.XForwardedFor, ",") IN
       TrimSpace(IF i < 0 THEN req.XForwardedFor
                 ELSE SubSeq(req.XForwardedFor, 1, i))
  ELSE LET hp == SplitHostPort(req.RemoteAddr) IN
       IF hp.err # "" THEN req.RemoteAddr ELSE hp.host

\* IPHash.SelectTarget: [err, idx]
IPHashSelect(targets, req) ==
  LET healthy == HealthyTargets(targets) IN
  IF Len(targets) = 0
  THEN [err |-> "no targets available", idx |-> 0]
  ELSE IF Len(healthy) = 0
  THEN [err |-> "no healthy targets available", idx |-> 0]
  ELSE [err |-> "",
        idx |-> healthy[HashMod(hashIP(getClientIP(req)), Len(healthy)) + 1]]

\* LoadBalancer.SelectTarget dispatched on the concrete type: [err, idx, current]
SelectTarget(kind, targets, current, req) ==
  CASE kind = "round_robin" -> RoundRobinSelect(targets, current)
    [] kind = "least_connections" ->
         [err |-> LeastConnSelect(targets).err,
          idx |-> LeastConnSelect(targets).idx, current |-> current]
    [] kind = "ip_hash" ->
         [err |-> IPHashSelect(targets, req).err,
          idx |-> IPHashSelect(targets, req).idx, current |-> current]

\* UpdateTarget that only ever counts up
LeastConnUpdateNoDecrement(connections, delta) ==
  IF delta < 0 THEN connections ELSE connections + delta

\* UpdateTarget without the test for a negative count
LeastConnUpdateUnclamped(connections, delta) == connections + delta

\* LeastConnections.UpdateTarget on the Connections field of one Target
LeastConnUpdate(connections, delta) ==
  IF connections + delta < 0 THEN 0 ELSE connections + delta

\* LoadBalancer.UpdateTarget dispatched on the concrete type: the new
\* Connections of the target (round robin and ip hash do nothing)
UpdateTarget(kind, connections, delta) ==
  IF kind = "least_connections" THEN LeastConnUpdate(connections, delta)
  ELSE connections

\* the selection part of the handler answering a selection error with 502
HandlerSelectBadGateway(kind, targets, current, req) ==
  IF Len(targets) = 0
  THEN [status |-> 503, err |-> "No healthy targets available", idx |-> 0,
        current |-> current]
  ELSE LET sel == SelectTarget(kind, targets, current, req) IN
       IF sel.err # ""
       THEN [status |-> 502, err |-> "Failed to select target", idx |-> 0,
             current |-> sel.current]
       ELSE [status |-> 0, err |-> "", idx |-> sel.idx, current |-> sel.current]

\* createMainHandler, "create targets ... select target": the part of the handler
\* between createTargets and the construction of the reverse proxy.
\* [status, err, idx, current]; status 0 means no response was written yet.
HandlerSelect(kind, targets, current, req) ==
  IF Len(targets) = 0
  THEN [status |-> 503, err |-> "No healthy targets available", idx |-> 0,
        current |-> current]
  ELSE LET sel == SelectTarget(kind, targets, current, req) IN
       IF sel.err # ""
       THEN [status |-> 503, err |-> "Failed to select target", idx |-> 0,
             current |-> sel.current]
       ELSE [status |-> 0, err |-> "", idx |-> sel.idx, current |-> sel.current]

(***************************************************************************)
(* internal/health: the checker.                                           *)
(***************************************************************************)
\* Status values (StatusUnknown, StatusHealthy, StatusUnhealthy)
StatusUnknown == "Unknown"
StatusHealthy == "Healthy"
StatusUnhealthy == "Unhealthy"

\* thresholds of the health check config built in performHealthChecks
DefaultFailureThreshold == 3
DefaultSuccessThreshold == 2

\* the TargetHealth registerTarget stores and CheckTarget assumes for a
\* URL that is not in the map
NewTargetHealth ==
  [Status |-> StatusUnknown, ConsecutiveFailures |-> 0, ConsecutiveSuccesses |-> 0]

\* updateTargetHealth with the opposite counter carried over instead of reset
updateTargetHealthNoReset(existing, isHealthy, failureThreshold, successThreshold) ==
  IF isHealthy
  THEN LET cs == existing.ConsecutiveSuccesses + 1 IN
       [ConsecutiveSuccesses |-> cs,
        ConsecutiveFailures |-> existing.ConsecutiveFailures,
        Status |-> IF cs >= successThreshold THEN StatusHealthy ELSE existing.Status]
  ELSE LET cf == existing.ConsecutiveFailures + 1 IN
       [ConsecutiveFailures |-> cf,
        ConsecutiveSuccesses |-> existing.ConsecutiveSuccesses,
        Status |-> IF cf >= failureThreshold THEN StatusUnhealthy ELSE existing.Status]

\* updateTargetHealth with "above the threshold" for "at the threshold"
updateTargetHealthAbove(existing, isHealthy, failureThreshold, successThreshold) ==
  IF isHealthy
  THEN LET cs == existing.ConsecutiveSuccesses + 1 IN
       [ConsecutiveSuccesses |-> cs,
        ConsecutiveFailures |-> 0,
        Status |-> IF cs > successThreshold THEN StatusHealthy ELSE existing.Status]
  ELSE LET cf == existing.ConsecutiveFailures + 1 IN
       [ConsecutiveFailures |-> cf,
        ConsecutiveSuccesses |-> 0,
        Status |-> IF cf > failureThreshold THEN StatusUnhealthy ELSE existing.Status]

\* checker.updateTargetHealth
updateTargetHealth(existing, isHealthy, failureThreshold, successThreshold) ==
  IF isHealthy
  THEN LET cs == existing.ConsecutiveSuccesses + 1 IN
       [ConsecutiveSuccesses |-> cs,
        ConsecutiveFailures |-> 0,
        Status |-> IF cs >= successThreshold THEN StatusHealthy ELSE existing.Status]
  ELSE LET cf == existing.ConsecutiveFailures + 1 IN
       [ConsecutiveFailures |-> cf,
        ConsecutiveSuccesses |-> 0,
        Status |-> IF cf >= failureThreshold THEN StatusUnhealthy ELSE existing.Status]

\* checker.IsHealthy on a map m
IsHealthyIn(m, url) ==
  IF url \notin DOMAIN m THEN TRUE ELSE m[url].Status = StatusHealthy

\* checker.GetHealth: the status reported for a URL
GetHealthStatus(m, url) ==
  IF url \notin DOMAIN m THEN StatusUnknown ELSE m[url].Status

\* the URLs the checker is asked about
HealthURLs == {"http://a", "http://b"}

\* map update m[url] = v, adding the key when absent
MapPut(m, url, v) == [u \in DOMAIN m \cup {url} |-> IF u = url THEN v ELSE m[u]]
\* delete(m, url)
MapDelete(m, url) == [u \in DOMAIN m \ {url} |-> m[u]]

InitHealth ==
  /\ hEnabled \in BOOLEAN
  /\ htargets = << >>
  /\ hPending = {}
  /\ hTicks = 0
  /\ hHist = << >>
  /\ hExisting = << >>
  /\ hSeen = <<>>

\* checker.registerTarget
registerTarget(url) ==
  /\ IF url \notin DOMAIN htargets
     THEN /\ htargets' = MapPut(htargets, url, NewTargetHealth)
          /\ hHist' = MapPut(hHist, url, <<>>)
     ELSE UNCHANGED <<htargets, hHist>>
  /\ UNCHANGED <<hEnabled, hPending, hTicks, hExisting, hSeen, lbvars, rtvars, pvars, rlvars, avars, tvars, svars, cvars, gvars>>

\* checker.unregisterTarget
unregisterTarget(url) ==
  /\ url \in DOMAIN htargets
  /\ htargets' = MapDelete(htargets, url)
  /\ hHist' = MapDelete(hHist, url)
  /\ UNCHANGED <<hEnabled, hPending, hTicks, hExisting, hSeen, lbvars, rtvars, pvars, rlvars, avars, tvars, svars, cvars, gvars>>

\* a tick that starts although probes of the tick before have not stored
performHealthChecksNoWait ==
  /\ hEnabled
  /\ hTicks < MaxTicks
  /\ hPending' = DOMAIN htargets
  /\ hTicks' = hTicks + 1
  /\ UNCHANGED <<hEnabled, htargets, hHist, hExisting, hSeen, lbvars, rtvars, pvars, rlvars, avars, tvars, svars, cvars, gvars>>

\* checker.run, one tick: performHealthChecks copies the map and starts one
\* probe goroutine per URL; the next tick starts after wg.Wait()
performHealthChecks ==
  /\ hEnabled
  /\ hPending = {}
  /\ hTicks < MaxTicks
  /\ hPending' = DOMAIN htargets
  /\ hTicks' = hTicks + 1
  /\ UNCHANGED <<hEnabled, htargets, hHist, hExisting, hSeen, lbvars, rtvars, pvars, rlvars, avars, tvars, svars, cvars, gvars>>

\* one probe goroutine of performHealthChecks: CheckTarget with the default
\* config (probe outcome isHealthy), then c.targets[targetURL] = health
probeTarget(url, isHealthy) ==
  /\ url \in hPending
  /\ LET existing == IF url \in DOMAIN htargets THEN htargets[url]
                     ELSE NewTargetHealth
         before == IF url \in DOMAIN hHist THEN hHist[url] ELSE <<>>
     IN /\ htargets' = MapPut(htargets, url,
                         updateTargetHealth(existing, isHealthy,
                           DefaultFailureThreshold, DefaultSuccessThreshold))
        /\ hHist' = MapPut(hHist, url, Append(before, isHealthy))
  /\ hPending' = hPending \ {url}
  /\ UNCHANGED <<hEnabled, hTicks, hExisting, hSeen, lbvars, rtvars, pvars, rlvars, avars, tvars, svars, cvars, gvars>>

\* a probe goroutine, first half: CheckTarget reads c.targets[url] under the
\* read lock ("existing", a fresh Unknown record if there is no entry)
CheckTargetRead(url) ==
  /\ url \in hPending
  /\ url \notin DOMAIN hExisting
  /\ hExisting' = MapPut(hExisting, url,
                     IF url \in DOMAIN htargets THEN htargets[url] ELSE NewTargetHealth)
  /\ UNCHANGED <<hEnabled, htargets, hPending, hTicks, hHist, hSeen, lbvars, rtvars, pvars, rlvars, avars, tvars, svars, cvars, gvars>>

\* a probe goroutine, second half: the probe answered (isHealthy),
\* updateTargetHealth builds a new record from "existing", and the goroutine
\* stores it under the write lock and is done
CheckTargetStore(url, isHealthy) ==
  /\ url \in DOMAIN hExisting
  /\ htargets' = MapPut(htargets, url,
                    updateTargetHealth(hExisting[url], isHealthy,
                      DefaultFailureThreshold, DefaultSuccessThreshold))
  /\ hHist' = MapPut(hHist, url,
                 Append(IF url \in DOMAIN hHist THEN hHist[url] ELSE <<>>, isHealthy))
  /\ hExisting' = MapDelete(hExisting, url)
  /\ hPending' = hPending \ {url}
  /\ UNCHANGED <<hEnabled, hTicks, hSeen, lbvars, rtvars, pvars, rlvars, avars, tvars, svars, cvars, gvars>>

\* checker.GetHealth: a copy of the stored record made under the read lock
\* (Unknown for a URL without entry); "at" is the number of outcomes stored
\* for the URL when the call was made
GetHealth(url) ==
  /\ Len(hSeen) < MaxReads
  /\ hSeen' = Append(hSeen,
                 [url |-> url,
                  health |-> IF url \in DOMAIN htargets THEN htargets[url]
                             ELSE NewTargetHealth,
                  at |-> IF url \in DOMAIN hHist THEN Len(hHist[url]) ELSE 0])
  /\ UNCHANGED <<hEnabled, htargets, hPending, hTicks, hHist, hExisting, lbvars, rtvars, pvars, rlvars, avars, tvars, svars, cvars, gvars>>

NextHealth ==
  \/ \E url \in HealthURLs : registerTarget(url)
  \/ \E url \in HealthURLs : unregisterTarget(url)
  \/ performHealthChecks
  \/ \E url \in HealthURLs, isHealthy \in BOOLEAN : probeTarget(url, isHealthy)

(***************************************************************************)
(* internal/proxy/server.go: retryHandler and retryResponseWriter.         *)
(* The client's writer is the http.ResponseWriter the handler was given:   *)
(* [wroteHeader, status, body], body the sequence of chunks written.       *)
(* A backend outcome is [status, body], body "" when nothing is written; a *)
(* transport error is answered by the reverse proxy's error handler with   *)
(* 502 and no body.                                                        *)
(***************************************************************************)
NewClientWriter == [wroteHeader |-> FALSE, status |-> 0, body |-> <<>>]

\* http.ResponseWriter.WriteHeader of the server's writer: the first status
\* is sent, a later call is superfluous and ignored
ClientWriteHeader(client, statusCode) ==
  IF client.wroteHeader THEN client
  ELSE [client EXCEPT !.wroteHeader = TRUE, !.status = statusCode]

\* http.ResponseWriter.Write of the server's writer
ClientWrite(client, data) ==
  LET c == ClientWriteHeader(client, 200) IN [c EXCEPT !.body = Append(@, data)]

\* retryResponseWriter.WriteHeader on w = [rw, client]
retryWriteHeader(w, statusCode) ==
  IF ~w.rw.written
  THEN [rw |-> [statusCode |-> statusCode, written |-> TRUE],
        client |-> ClientWriteHeader(w.client, statusCode)]
  ELSE w

\* retryResponseWriter.Write on w = [rw, client]
retryWrite(w, data) ==
  LET w1 == IF ~w.rw.written THEN retryWriteHeader(w, 200) ELSE w IN
  [w1 EXCEPT !.client = ClientWrite(@, data)]

\* the wrapped handler (the reverse proxy) writing one backend outcome
proxyToWriter(w, outcome) ==
  LET w1 == retryWriteHeader(w, outcome.status) IN
  IF outcome.body = "" THEN w1 ELSE retryWrite(w1, outcome.body)

\* the state of retryHandler.ServeHTTP on entry to its loop
NewRetryState ==
  [pc |-> "loop", attempt |-> 0,
   rw |-> [statusCode |-> 0, written |-> FALSE],
   client |-> NewClientWriter]

\* the loop of retryHandler.ServeHTTP with its bound test off by one
retryIterationOneMore(st, attempts, outcome) ==
  LET w == proxyToWriter([rw |-> [statusCode |-> 0, written |-> FALSE],
                          client |-> st.client], outcome)
  IN IF w.rw.statusCode < 500 \/ st.attempt = attempts + 1
     THEN [pc |-> "done", attempt |-> st.attempt, rw |-> w.rw, client |-> w.client]
     ELSE [pc |-> "loop", attempt |-> st.attempt + 1, rw |-> w.rw,
           client |-> w.client]

\* one iteration of the loop of retryHandler.ServeHTTP
retryIteration(st, attempts, outcome) ==
  LET w == proxyToWriter([rw |-> [statusCode |-> 0, written |-> FALSE],
                          client |-> st.client], outcome)
  IN IF w.rw.statusCode < 500 \/ st.attempt = attempts
     THEN [pc |-> "done", attempt |-> st.attempt, rw |-> w.rw, client |-> w.client]
     ELSE [pc |-> "loop", attempt |-> st.attempt + 1, rw |-> w.rw,
           client |-> w.client]

\* what a backend does with one dispatched request
BackendOutcomes ==
  { [status |-> 200, body |-> "ok"],
    [status |-> 404, body |-> "not found"],
    [status |-> 500, body |-> "error"],
    [status |-> 503, body |-> "unavailable"],
    [status |-> 502, body |-> ""] }

\* the reverse proxy's answer when the request context is done before the
\* backend has responded: the transport fails and the default error handler
\* writes 502 Bad Gateway with no body
ContextDoneOutcome == [status |-> 502, body |-> ""]

\* the context of a request: deadline says whether the route has timeout > 0,
\* expired whether the deadline has passed, inflight whether the wrapped
\* handler is running, late[k] whether attempt k started after the deadline
\* passed, lateSleeps how many backoff sleeps started after it passed
NewContext(deadline) ==
  [deadline |-> deadline, expired |-> FALSE, inflight |-> FALSE, late |-> <<>>,
   lateSleeps |-> 0]

InitRetry ==
  /\ rtAttempts \in 0..MaxAttempts
  /\ rtState = NewRetryState
  /\ rtServed = <<>>
  /\ rtCtx \in {NewContext(d) : d \in BOOLEAN}

IdleRetry ==
  /\ rtAttempts = 0
  /\ rtState = NewRetryState
  /\ rtServed = <<>>
  /\ rtCtx = NewContext(FALSE)

\* the timer of context.WithTimeout(r.Context(), route.Timeout) fires
DeadlineExpires ==
  /\ rtCtx.deadline /\ ~rtCtx.expired
  /\ rtState.pc = "loop"
  /\ rtCtx' = [rtCtx EXCEPT !.expired = TRUE]
  /\ UNCHANGED <<rtAttempts, rtState, rtServed, lbvars, hvars, pvars, rlvars, avars, tvars, svars, cvars, gvars>>

\* the call of the wrapped handler: rh.handler.ServeHTTP(rw, r) in the retry
\* loop, routeHandler.ServeHTTP(w, r) without a retry policy
Dispatch ==
  /\ rtState.pc = "loop"
  /\ ~rtCtx.inflight
  /\ rtCtx' = [rtCtx EXCEPT !.inflight = TRUE, !.late = Append(@, rtCtx.expired)]
  /\ UNCHANGED <<rtAttempts, rtState, rtServed, lbvars, hvars, pvars, rlvars, avars, tvars, svars, cvars, gvars>>

\* retryHandler.ServeHTTP, the rest of one iteration: the wrapped handler
\* returns, the status is tested and, if another attempt follows, the backoff
\* sleep is taken; the route has retry_policy.attempts > 0
RetryAttempt(outcome) ==
  /\ rtAttempts > 0
  /\ rtState.pc = "loop"
  /\ rtCtx.inflight
  /\ rtCtx.expired => outcome = ContextDoneOutcome
  /\ rtState' = retryIteration(rtState, rtAttempts, outcome)
  /\ rtServed' = Append(rtServed, outcome)
  /\ rtCtx' = [rtCtx EXCEPT
                 !.inflight = FALSE,
                 !.lateSleeps = IF rtState'.pc = "loop" /\ rtCtx.expired
                                THEN @ + 1 ELSE @]
  /\ UNCHANGED <<rtAttempts, lbvars, hvars, pvars, rlvars, avars, tvars, svars, cvars, gvars>>

\* createMainHandler with retry_policy.attempts = 0: routeHandler is the
\* reverse proxy itself and writes to the client's writer
DirectServe(outcome) ==
  /\ rtAttempts = 0
  /\ rtState.pc = "loop"
  /\ rtCtx.inflight
  /\ rtCtx.expired => outcome = ContextDoneOutcome
  /\ LET c1 == ClientWriteHeader(rtState.client, outcome.status)
         c2 == IF outcome.body = "" THEN c1 ELSE ClientWrite(c1, outcome.body)
     IN rtState' = [rtState EXCEPT !.pc = "done", !.client = c2]
  /\ rtServed' = Append(rtServed, outcome)
  /\ rtCtx' = [rtCtx EXCEPT !.inflight = FALSE]
  /\ UNCHANGED <<rtAttempts, lbvars, hvars, pvars, rlvars, avars, tvars, svars, cvars, gvars>>

NextRetry ==
  \/ \E outcome \in BackendOutcomes : RetryAttempt(outcome)
  \/ \E outcome \in BackendOutcomes : DirectServe(outcome)
  \/ Dispatch
  \/ DeadlineExpires

(***************************************************************************)
(* internal/config: the part of a configuration the proxy reads.           *)
(* Host, paths and prefixes are sequences of characters.                   *)
(***************************************************************************)
NoRewrite == [StripPrefix |-> <<>>, AddPrefix |-> <<>>, Regex |-> <<>>,
              Replacement |-> <<>>]

TargetsAB == <<[URL |-> "http://a", Weight |-> 1], [URL |-> "http://b", Weight |-> 1]>>
TargetsCD == <<[URL |-> "http://c", Weight |-> 1], [URL |-> "http://d", Weight |-> 1]>>

\* route /a/* of host h served by upstream "api" (least connections)
CfgA ==
  [Routes |-> << [Host |-> <<"h">>, Path |-> <<"/","a","/","*">>, Methods |-> <<>>,
                  Upstream |-> "api",
                  Rewrite |-> [NoRewrite EXCEPT !.StripPrefix = <<"/","a">>],
                  Middleware |-> <<"log">>, Attempts |-> 0, Headers |-> << >>] >>,
   Upstreams |-> ("api" :> [LoadBalancer |-> "least_connections",
                            Targets |-> TargetsAB]),
   Middleware |-> << [Name |-> "log", Type |-> "logging", Enabled |-> TRUE,
                      Order |-> 1] >>]

\* the same route repointed at upstream "new" (round robin), one retry
CfgB ==
  [Routes |-> << [Host |-> <<"h">>, Path |-> <<"/","a","/","*">>,
                  Methods |-> <<"GET">>, Upstream |-> "new",
                  Rewrite |-> NoRewrite,
                  Middleware |-> <<"log">>, Attempts |-> 1, Headers |-> << >>] >>,
   Upstreams |-> ("api" :> [LoadBalancer |-> "least_connections",
                            Targets |-> TargetsAB]) @@
                 ("new" :> [LoadBalancer |-> "round_robin",
                            Targets |-> TargetsCD]),
   Middleware |-> << [Name |-> "log", Type |-> "logging", Enabled |-> FALSE,
                      Order |-> 1] >>]

\* a configuration whose route names an upstream that is not defined
CfgBad ==
  [Routes |-> << [Host |-> <<"h">>, Path |-> <<"/","a","/","*">>, Methods |-> <<>>,
                  Upstream |-> "ghost", Rewrite |-> NoRewrite,
                  Middleware |-> <<>>, Attempts |-> 0, Headers |-> << >>] >>,
   Upstreams |-> ("api" :> [LoadBalancer |-> "least_connections",
                            Targets |-> TargetsAB]),
   Middleware |-> <<>>]

CandidateConfigs == {CfgA, CfgB, CfgBad}

\* url.Parse succeeds on every target URL of the model
UrlParses(url) == url # ""

\* regexp.Compile for the patterns of the model: literals, and the unbalanced "("
RegexCompiles(re) == re # <<"(">>

\* validateUpstreamsConfig, validateUpstreamService, validateTarget
validateUpstreamsConfig(c) ==
  /\ DOMAIN c.Upstreams # {}
  /\ \A name \in DOMAIN c.Upstreams :
       /\ name # ""
       /\ c.Upstreams[name].LoadBalancer \in Strategies
       /\ Len(c.Upstreams[name].Targets) > 0
       /\ \A i \in 1..Len(c.Upstreams[name].Targets) :
            LET t == c.Upstreams[name].Targets[i] IN
            t.URL # "" /\ UrlParses(t.URL) /\ t.Weight >= 0

\* validateRoutesConfig, validateRouteRule
validateRoutesConfig(c) ==
  /\ Len(c.Routes) > 0
  /\ \A i \in 1..Len(c.Routes) :
       LET rule == c.Routes[i] IN
       /\ rule.Host # <<>>
       /\ rule.Path # <<>>
       /\ HasPrefix(rule.Path, <<"/">>)
       /\ rule.Upstream # ""
       /\ rule.Upstream \in DOMAIN c.Upstreams
       /\ \A m \in Range(rule.Methods) :
            m \in {"GET", "POST", "PUT", "DELETE", "PATCH", "HEAD", "OPTIONS"}
       /\ rule.Rewrite.Regex # <<>> => RegexCompiles(rule.Rewrite.Regex)
       /\ rule.Rewrite.StripPrefix # <<>> => HasPrefix(rule.Rewrite.StripPrefix, <<"/">>)
       /\ rule.Rewrite.AddPrefix # <<>> => HasPrefix(rule.Rewrite.AddPrefix, <<"/">>)
       /\ rule.Rewrite.Regex # <<>> => rule.Rewrite.Replacement # <<>>
       /\ rule.Attempts >= 0

\* validateMiddlewareConfig
validateMiddlewareConfig(c) ==
  /\ \A i \in 1..Len(c.Middleware) :
       /\ c.Middleware[i].Name # ""
       /\ c.Middleware[i].Type \in {"logging", "rate_limit", "auth", "cors", "compression"}
  /\ \A i, j \in 1..Len(c.Middleware) :
       i # j => /\ c.Middleware[i].Name # c.Middleware[j].Name
                /\ c.Middleware[i].Order # c.Middleware[j].Order

\* ValidateConfig, on the parts of the configuration the model holds
ValidateConfig(c) ==
  validateUpstreamsConfig(c) /\ validateRoutesConfig(c) /\ validateMiddlewareConfig(c)

(***************************************************************************)
(* internal/proxy/server.go: the main handler.                             *)
(***************************************************************************)
\* the host and path test of one rule in findMatchingRoute
RuleMatches(rule, in) ==
  /\ rule.Host # <<>> =>
       LET colonIndex == IndexOf(in.Host, ":")
           requestHost == IF colonIndex # -1 THEN SubSeq(in.Host, 1, colonIndex)
                          ELSE in.Host
       IN rule.Host = requestHost
  /\ rule.Path # <<>> =>
       IF HasSuffix(rule.Path, <<"/", "*">>)
       THEN HasPrefix(in.Path, TrimSuffix(rule.Path, <<"/", "*">>))
       ELSE in.Path = rule.Path
  /\ Len(rule.Methods) > 0 => in.Method \in Range(rule.Methods)

\* server.findMatchingRoute: the position of the first matching rule, 0 for nil
findMatchingRoute(rules, in) ==
  IF \E i \in 1..Len(rules) : RuleMatches(rules[i], in)
  THEN CHOOSE i \in 1..Len(rules) :
         RuleMatches(rules[i], in) /\ \A j \in 1..(i - 1) : ~RuleMatches(rules[j], in)
  ELSE 0

\* regexp ReplaceAllString for a literal pattern and a literal replacement
RECURSIVE ReplaceAllLiteral(_, _, _)
ReplaceAllLiteral(s, pat, rep) ==
  IF Len(pat) = 0 \/ Len(s) < Len(pat) THEN s
  ELSE IF HasPrefix(s, pat)
  THEN rep \o ReplaceAllLiteral(SubSeq(s, Len(pat) + 1, Len(s)), pat, rep)
  ELSE <<Head(s)>> \o ReplaceAllLiteral(Tail(s), pat, rep)

\* server.applyRewrite: [path, err]
applyRewrite(originalPath, rewrite) ==
  LET p1 == IF rewrite.StripPrefix # <<>> /\ HasPrefix(originalPath, rewrite.StripPrefix)
            THEN LET t == TrimPrefix(originalPath, rewrite.StripPrefix) IN
                 IF t = <<>> THEN <<"/">> ELSE t
            ELSE originalPath
      p2 == IF rewrite.AddPrefix # <<>>
            THEN rewrite.AddPrefix \o (IF HasPrefix(p1, <<"/">>) THEN p1 ELSE <<"/">> \o p1)
            ELSE p1
  IN IF rewrite.Regex # <<>> /\ rewrite.Replacement # <<>>
     THEN IF ~RegexCompiles(rewrite.Regex)
          THEN [path |-> p2, err |-> "invalid rewrite regex"]
          ELSE [path |-> ReplaceAllLiteral(p2, rewrite.Regex, rewrite.Replacement),
                err |-> ""]
     ELSE [path |-> p2, err |-> ""]

\* server.createTargets: a fresh Target per configured target whose URL parses
RECURSIVE createTargets(_, _)
createTargets(targetConfigs, health) ==
  IF targetConfigs = <<>> THEN <<>>
  ELSE LET tc == Head(targetConfigs) IN
       (IF UrlParses(tc.URL)
        THEN << [URL |-> tc.URL, IsHealthy |-> IsHealthyIn(health, tc.URL),
                 Connections |-> 0] >>
        ELSE <<>>) \o createTargets(Tail(targetConfigs), health)

\* server.applyRouteMiddleware: the types of the middleware put in the chain
RECURSIVE applyRouteMiddleware(_, _)
applyRouteMiddleware(names, chainCfg) ==
  IF names = <<>> THEN <<>>
  ELSE LET hits == {i \in 1..Len(chainCfg) :
                      chainCfg[i].Name = Head(names) /\ chainCfg[i].Enabled}
       IN (IF hits = {} THEN <<>>
           ELSE << chainCfg[CHOOSE i \in hits : \A j \in hits : i <= j].Type >>)
          \o applyRouteMiddleware(Tail(names), chainCfg)

\* sort.Slice by Order in Factory.CreateChain (orders are distinct)
RECURSIVE SortByOrder(_)
SortByOrder(chain) ==
  IF chain = <<>> THEN <<>>
  ELSE LET i == CHOOSE i \in 1..Len(chain) :
                  \A j \in 1..Len(chain) : chain[i].Order <= chain[j].Order
       IN <<chain[i]>> \o
          SortByOrder(SubSeq(chain, 1, i - 1) \o SubSeq(chain, i + 1, Len(chain)))

\* the types of a list of middleware entries, the disabled ones skipped
RECURSIVE EnabledTypes(_)
EnabledTypes(chain) ==
  IF chain = <<>> THEN <<>>
  ELSE (IF Head(chain).Enabled THEN <<Head(chain).Type>> ELSE <<>>)
         \o EnabledTypes(Tail(chain))

\* Factory.CreateChain: the middleware put in the chain, in execution order
CreateChain(chainCfg) == EnabledTypes(SortByOrder(chainCfg))

\* server.Start: handler := globalChain.Then(mainHandler), the chain built
\* once from the configuration the server was started with
GlobalChain == CreateChain(snaps[1].Middleware)

\* Chain.Then with the loop running from the first middleware to the last
ThenFirstInnermost(middlewares, handler) ==
  [i \in 1..Len(middlewares) |-> middlewares[Len(middlewares) + 1 - i]] \o handler

\* Chain.Then: a handler is the list of its layers, the outermost first (each
\* layer calls the next one and gets the response when that call returns);
\* the loop wraps the handler in middlewares[i] for i from the last to the first
RECURSIVE ThenLoop(_, _, _)
ThenLoop(middlewares, i, handler) ==
  IF i < 1 THEN handler
  ELSE ThenLoop(middlewares, i - 1, <<middlewares[i]>> \o handler)

Then(middlewares, handler) == ThenLoop(middlewares, Len(middlewares), handler)

\* routeHandler of createMainHandler: applyRouteMiddleware (the named
\* middleware, the headers middleware if the route has headers, Then on the
\* reverse proxy) and the retry handler around it if attempts > 0
RouteHandler(route, chainCfg) ==
  LET chain == applyRouteMiddleware(route.Middleware, chainCfg)
                 \o (IF DOMAIN route.Headers # {} THEN <<"headers">> ELSE <<>>)
      handler == Then(chain, <<"proxy">>)
  IN IF route.Attempts > 0 THEN <<"retry">> \o handler ELSE handler

\* the requests clients send
ProxyRequests ==
  { [Host |-> <<"h",":","8","0">>, Path |-> <<"/","a","/","x">>, Method |-> "GET",
     XRealIP |-> <<>>, XForwardedFor |-> <<>>,
     RemoteAddr |-> <<"1","0",".","0",".","0",".","7",":","8","0">>],
    [Host |-> <<"h">>, Path |-> <<"/","z">>, Method |-> "GET",
     XRealIP |-> <<>>, XForwardedFor |-> <<>>,
     RemoteAddr |-> <<"1","0",".","0",".","0",".","7",":","8","0">>] }

\* what the backends of the proxy specification answer
ProxyBackendOutcomes ==
  { [status |-> 200, body |-> "ok"], [status |-> 503, body |-> "unavailable"] }

Reqs == 1..NumRequests

NoInput == [Host |-> <<>>, Path |-> <<>>, Method |-> "", XRealIP |-> <<>>,
            XForwardedFor |-> <<>>, RemoteAddr |-> <<>>]
NoRoute == [Host |-> <<>>, Path |-> <<>>, Methods |-> <<>>, Upstream |-> "",
            Rewrite |-> NoRewrite, Middleware |-> <<>>, Attempts |-> 0,
            Headers |-> << >>]
NoUpstream == [LoadBalancer |-> "", Targets |-> <<>>]

\* the locals of a handler run that has not started; snapRoute, snapUp, snapLB
\* and snapMw record which configuration each read of shared state saw (0: no
\* read yet), startGen the configuration last published when the run started,
\* overlap whether an UpdateConfig call ran during the run, selGen and sentGen
\* the configuration last published at selection and at the latest dispatch,
\* sent the URL of the latest dispatch, preConn and leastLoaded what held at
\* selection time, global the middleware of the global chain that ran before
\* the main handler, sentPaths the URL path of each dispatch
NewReq ==
  [pc |-> "new", in |-> NoInput, path |-> <<>>, route |-> NoRoute,
   upstream |-> NoUpstream, lb |-> 0, targets |-> <<>>, idx |-> 0,
   chain |-> <<>>, retry |-> NewRetryState, status |-> 0,
   snapRoute |-> 0, snapUp |-> 0, snapLB |-> 0, snapMw |-> 0,
   startGen |-> 0, overlap |-> FALSE, selGen |-> 0, sentGen |-> 0, sent |-> "",
   preConn |-> 0, leastLoaded |-> TRUE, global |-> <<>>, sentPaths |-> <<>>,
   seen |-> <<>>, sentTo |-> <<>>]

\* requests dispatched to the target with this URL and not yet completed
InFlight(url) ==
  Cardinality({q \in Reqs : /\ reqs[q].pc = "serve"
                            /\ reqs[q].targets[reqs[q].idx].URL = url})

\* server.initializeLoadBalancers for one configuration, all at once (Start)
InitialBalancers(c) ==
  LET names == DOMAIN c.Upstreams
      order == CHOOSE f \in [1..Cardinality(names) -> names] :
                 \A i, j \in 1..Cardinality(names) : i # j => f[i] # f[j]
  IN [objs |-> [i \in 1..Cardinality(names) |->
                  [kind |-> FactoryCreate(c.Upstreams[order[i]].LoadBalancer),
                   current |-> 0, gen |-> 1]],
      map |-> [n \in names |-> CHOOSE i \in 1..Cardinality(names) : order[i] = n]]

\* the state after NewServer and Start with the configuration CfgA; no
\* caller registers a target with the checker, so its map is empty
InitProxy ==
  /\ snaps = <<CfgA>>
  /\ cfg = 1
  /\ loadBalancers = InitialBalancers(CfgA).map
  /\ lbMapGen = 1
  /\ lbs = InitialBalancers(CfgA).objs
  /\ reqs = [r \in Reqs |-> NewReq]
  /\ wpc = "idle"
  /\ wLog = <<>>

IdleProxy ==
  /\ snaps = <<CfgA>>
  /\ cfg = 1
  /\ loadBalancers = InitialBalancers(CfgA).map
  /\ lbMapGen = 1
  /\ lbs = InitialBalancers(CfgA).objs
  /\ reqs = [r \in Reqs |-> NewReq]
  /\ wpc = "idle"
  /\ wLog = <<>>

Finish(rec, status) == [rec EXCEPT !.pc = "done", !.status = status]

\* the global middleware chain passing the request on, then createMainHandler:
\* findMatchingRoute and applyRewrite
HandlerRoute(r, in) ==
  /\ reqs[r].pc = "new"
  /\ \A q \in Reqs : q < r => reqs[q].pc # "new"   \* numbered in order of arrival
  /\ LET rules == snaps[cfg].Routes
         i == findMatchingRoute(rules, in)
         rec == [reqs[r] EXCEPT !.in = in, !.snapRoute = cfg,
                                !.global = GlobalChain,
                                !.seen = Then(GlobalChain, <<"main">>),
                                !.startGen = Len(snaps),
                                !.overlap = (wpc # "idle")]
     IN reqs' = [reqs EXCEPT ![r] =
          IF i = 0 THEN Finish(rec, 404)
          ELSE LET rw == applyRewrite(in.Path, rules[i].Rewrite) IN
               IF rw.err # "" THEN Finish([rec EXCEPT !.route = rules[i]], 500)
               ELSE [rec EXCEPT !.pc = "upstream", !.route = rules[i],
                                !.path = rw.path]]
  /\ UNCHANGED <<snaps, cfg, loadBalancers, lbMapGen, lbs, wpc, wLog>>
  /\ UNCHANGED <<lbvars, rtvars, hvars, rlvars, avars, tvars, svars, cvars, gvars>>

\* createMainHandler: "get upstream service"
HandlerUpstream(r) ==
  /\ reqs[r].pc = "upstream"
  /\ LET services == snaps[cfg].Upstreams
         rec == [reqs[r] EXCEPT !.snapUp = cfg]
     IN reqs' = [reqs EXCEPT ![r] =
          IF rec.route.Upstream \notin DOMAIN services THEN Finish(rec, 503)
          ELSE [rec EXCEPT !.pc = "lb", !.upstream = services[rec.route.Upstream]]]
  /\ UNCHANGED <<snaps, cfg, loadBalancers, lbMapGen, lbs, wpc, wLog>>
  /\ UNCHANGED <<lbvars, rtvars, hvars, rlvars, avars, tvars, svars, cvars, gvars>>

\* createMainHandler: "get load balancer"
HandlerBalancer(r) ==
  /\ reqs[r].pc = "lb"
  /\ LET rec == [reqs[r] EXCEPT !.snapLB = lbMapGen]
     IN reqs' = [reqs EXCEPT ![r] =
          IF rec.route.Upstream \notin DOMAIN loadBalancers THEN Finish(rec, 503)
          ELSE [rec EXCEPT !.pc = "select",
                           !.lb = loadBalancers[rec.route.Upstream]]]
  /\ UNCHANGED <<snaps, cfg, loadBalancers, lbMapGen, lbs, wpc, wLog>>
  /\ UNCHANGED <<lbvars, rtvars, hvars, rlvars, avars, tvars, svars, cvars, gvars>>

\* createMainHandler: createTargets and lb.SelectTarget
HandlerTarget(r) ==
  /\ reqs[r].pc = "select"
  /\ LET rec == reqs[r]
         targets == createTargets(rec.upstream.Targets, htargets)
         sel == HandlerSelect(lbs[rec.lb].kind, targets, lbs[rec.lb].current, rec.in)
         healthy == {i \in 1..Len(targets) : targets[i].IsHealthy}
     IN /\ lbs' = [lbs EXCEPT ![rec.lb].current = sel.current]
        /\ reqs' = [reqs EXCEPT ![r] =
             IF sel.status # 0 THEN Finish([rec EXCEPT !.targets = targets], sel.status)
             ELSE [rec EXCEPT !.pc = "mw", !.targets = targets, !.idx = sel.idx,
                     !.selGen = Len(snaps),
                     !.preConn = targets[sel.idx].Connections,
                     !.leastLoaded =
                        \A i \in healthy :
                          \/ InFlight(targets[i].URL) > InFlight(targets[sel.idx].URL)
                          \/ /\ InFlight(targets[i].URL) = InFlight(targets[sel.idx].URL)
                             /\ i >= sel.idx]]
  /\ UNCHANGED <<snaps, cfg, loadBalancers, lbMapGen, wpc, wLog>>
  /\ UNCHANGED <<lbvars, rtvars, hvars, rlvars, avars, tvars, svars, cvars, gvars>>

\* createMainHandler: applyRouteMiddleware, createRetryMiddleware and
\* lb.UpdateTarget(target, 1)
HandlerMiddleware(r) ==
  /\ reqs[r].pc = "mw"
  /\ LET rec == reqs[r] IN
     reqs' = [reqs EXCEPT ![r] =
       [rec EXCEPT !.pc = "serve", !.snapMw = cfg,
          !.chain = applyRouteMiddleware(rec.route.Middleware, snaps[cfg].Middleware),
          !.seen = @ \o RouteHandler(rec.route, snaps[cfg].Middleware),
          !.retry = NewRetryState,
          !.targets[rec.idx].Connections =
             UpdateTarget(lbs[rec.lb].kind, @, 1)]]
  /\ UNCHANGED <<snaps, cfg, loadBalancers, lbMapGen, lbs, wpc, wLog>>
  /\ UNCHANGED <<lbvars, rtvars, hvars, rlvars, avars, tvars, svars, cvars, gvars>>

\* the deferred lb.UpdateTarget(target, -1) and the return of the handler
HandlerReturn(rec, kind, client) ==
  [rec EXCEPT !.pc = "done", !.status = client.status,
              !.retry.client = client, !.retry.pc = "done",
              !.targets[rec.idx].Connections = UpdateTarget(kind, @, -1)]

\* the path of the outgoing request the reverse proxy builds from r.URL.Path
\* (the target URLs have no base path), with the rewrite applied once more
DispatchPathRewritten(rec) == applyRewrite(rec.path, rec.route.Rewrite).path

\* the path of the outgoing request the reverse proxy builds from r.URL.Path
\* (the target URLs have no base path)
DispatchPath(rec) == rec.path

\* a retry attempt after the first going to the next target of the list
DispatchTargetReselected(rec) ==
  IF rec.sentTo = <<>> THEN rec.targets[rec.idx].URL
  ELSE rec.targets[(rec.idx % Len(rec.targets)) + 1].URL

\* the target of a dispatch: the reverse proxy createMainHandler made for the
\* selected target before the retry handler was put around it
DispatchTarget(rec) == rec.targets[rec.idx].URL

\* createMainHandler: routeHandler.ServeHTTP, one dispatch to the target; with
\* a retry policy the retry handler may dispatch again
HandlerServe(r, outcome) ==
  /\ reqs[r].pc = "serve"
  /\ LET rec == [reqs[r] EXCEPT !.sent = DispatchTarget(reqs[r]),
                                !.sentTo = Append(@, DispatchTarget(reqs[r])),
                                !.sentGen = Len(snaps),
                                !.sentPaths = Append(@, DispatchPath(reqs[r]))]
         kind == lbs[rec.lb].kind
     IN reqs' = [reqs EXCEPT ![r] =
          IF rec.route.Attempts > 0
          THEN LET st == retryIteration(rec.retry, rec.route.Attempts, outcome) IN
               IF st.pc = "done" THEN HandlerReturn([rec EXCEPT !.retry = st], kind, st.client)
               ELSE [rec EXCEPT !.retry = st]
          ELSE LET c1 == ClientWriteHeader(rec.retry.client, outcome.status)
                   c2 == IF outcome.body = "" THEN c1 ELSE ClientWrite(c1, outcome.body)
               IN HandlerReturn(rec, kind, c2)]
  /\ UNCHANGED <<snaps, cfg, loadBalancers, lbMapGen, lbs, wpc, wLog>>
  /\ UNCHANGED <<lbvars, rtvars, hvars, rlvars, avars, tvars, svars, cvars, gvars>>

(***************************************************************************)
(* cmd/proxy/main.go: the watcher goroutine, and server.UpdateConfig.      *)
(***************************************************************************)
\* what config.LoadConfig returns on a write event
NoConfig == [Routes |-> <<>>, Upstreams |-> << >>, Middleware |-> <<>>]
LoadResults ==
  {[err |-> "failed to load", cfg |-> NoConfig]}
    \cup {[err |-> "", cfg |-> c] : c \in CandidateConfigs}

\* UpdateConfig without its assignment of s.cfg
UpdateConfigPublishStale(c) ==
  /\ snaps' = Append(snaps, c)
  /\ cfg' = cfg

\* UpdateConfig, "s.cfg = cfg": the new configuration becomes the live one
UpdateConfigPublish(c) ==
  /\ snaps' = Append(snaps, c)
  /\ cfg' = Len(snaps) + 1

\* the watcher loop calling UpdateConfig whenever the files load
WatcherEventNoValidate(loaded) ==
  /\ wpc = "idle"
  /\ Len(wLog) < MaxEvents
  /\ IF loaded.err = ""
     THEN /\ UpdateConfigPublish(loaded.cfg)
          /\ wpc' = "make"
          /\ wLog' = Append(wLog, [loaded |-> loaded, result |-> "reloaded"])
          /\ reqs' = [r \in Reqs |->
                        IF reqs[r].pc \in {"new", "done"} THEN reqs[r]
                        ELSE [reqs[r] EXCEPT !.overlap = TRUE]]
     ELSE /\ wLog' = Append(wLog, [loaded |-> loaded, result |-> "rejected"])
          /\ UNCHANGED <<snaps, cfg, wpc, reqs>>
  /\ UNCHANGED <<loadBalancers, lbMapGen, lbs, lbvars, rtvars, hvars, rlvars, avars, tvars, svars, cvars, gvars>>

\* the watcher loop on a write event: LoadConfig, ValidateConfig and, if both
\* succeed, the call of UpdateConfig up to its assignment of s.cfg
WatcherEvent(loaded) ==
  /\ wpc = "idle"
  /\ Len(wLog) < MaxEvents
  /\ IF loaded.err = "" /\ ValidateConfig(loaded.cfg)
     THEN /\ UpdateConfigPublish(loaded.cfg)
          /\ wpc' = "make"
          /\ wLog' = Append(wLog, [loaded |-> loaded, result |-> "reloaded"])
          /\ reqs' = [r \in Reqs |->
                        IF reqs[r].pc \in {"new", "done"} THEN reqs[r]
                        ELSE [reqs[r] EXCEPT !.overlap = TRUE]]
     ELSE /\ wLog' = Append(wLog, [loaded |-> loaded, result |-> "rejected"])
          /\ UNCHANGED <<snaps, cfg, wpc, reqs>>
  /\ UNCHANGED <<loadBalancers, lbMapGen, lbs, lbvars, rtvars, hvars, rlvars, avars, tvars, svars, cvars, gvars>>

\* initializeLoadBalancers: s.loadBalancers = make(map...)
UpdateConfigMakeMap ==
  /\ wpc = "make"
  /\ loadBalancers' = << >>
  /\ lbMapGen' = cfg
  /\ wpc' = "fill"
  /\ UNCHANGED <<snaps, cfg, lbs, reqs, wLog, lbvars, rtvars, hvars, rlvars, avars, tvars, svars, cvars, gvars>>

\* initializeLoadBalancers: one turn of the loop over the upstreams (Go ranges
\* over the map in no fixed order); UpdateConfig returns after the last one
UpdateConfigAddBalancer(name) ==
  /\ wpc = "fill"
  /\ name \in DOMAIN snaps[cfg].Upstreams
  /\ name \notin DOMAIN loadBalancers
  /\ lbs' = Append(lbs, [kind |-> FactoryCreate(snaps[cfg].Upstreams[name].LoadBalancer),
                         current |-> 0, gen |-> cfg])
  /\ loadBalancers' = MapPut(loadBalancers, name, Len(lbs) + 1)
  /\ wpc' = IF DOMAIN snaps[cfg].Upstreams \subseteq DOMAIN loadBalancers \cup {name}
            THEN "idle" ELSE "fill"
  /\ UNCHANGED <<snaps, cfg, lbMapGen, reqs, wLog, lbvars, rtvars, hvars, rlvars, avars, tvars, svars, cvars, gvars>>

UpstreamNames == UNION {DOMAIN c.Upstreams : c \in CandidateConfigs}

NextProxy ==
  \/ \E r \in Reqs, in \in ProxyRequests : HandlerRoute(r, in)
  \/ \E r \in Reqs : HandlerUpstream(r)
  \/ \E r \in Reqs : HandlerBalancer(r)
  \/ \E r \in Reqs : HandlerTarget(r)
  \/ \E r \in Reqs : HandlerMiddleware(r)
  \/ \E r \in Reqs, outcome \in ProxyBackendOutcomes : HandlerServe(r, outcome)
  \/ \E loaded \in LoadResults : WatcherEvent(loaded)
  \/ UpdateConfigMakeMap
  \/ \E name \in UpstreamNames : UpdateConfigAddBalancer(name)

(***************************************************************************)
(* internal/middleware: the rate limiter.  One RateLimitMiddleware, its    *)
(* map of token buckets and the requests it handles.  A bucket of          *)
(* rate.NewLimiter(rps, burst) starts full, gains rps tokens per second up *)
(* to burst, and Allow takes one token if there is one.  Time advances in  *)
(* half seconds and tokens are counted in halves.  Cleanup has no caller.  *)
(***************************************************************************)
MaxRLRequests == 3
MaxRLTicks == 2

Min(a, b) == IF a <= b THEN a ELSE b

\* NewRateLimitMiddleware: the defaults and the values of the config map
NewRateLimitMiddleware(config) ==
  [RequestsPerSecond |-> IF "requests_per_second" \in DOMAIN config
                         THEN config.requests_per_second ELSE 10,
   Burst |-> IF "burst" \in DOMAIN config THEN config.burst ELSE 20,
   KeyFunc |-> IF "key_func" \in DOMAIN config THEN config.key_func ELSE "ip"]

\* getClientIP of package middleware
middlewareGetClientIP(r) ==
  IF r.XRealIP # <<>> THEN r.XRealIP
  ELSE IF r.XForwardedFor # <<>> THEN r.XForwardedFor
  ELSE r.RemoteAddr

\* RateLimitMiddleware.getKey
getKey(config, r) ==
  CASE config.KeyFunc = "ip" -> middlewareGetClientIP(r)
    [] config.KeyFunc = "user" ->
         IF r.XUserID # <<>> THEN r.XUserID ELSE middlewareGetClientIP(r)
    [] config.KeyFunc = "global" -> <<"g","l","o","b","a","l">>
    [] OTHER -> middlewareGetClientIP(r)

\* RateLimitMiddleware.getLimiter: the map with a full bucket for a new key
getLimiter(limiters, config, key) ==
  IF key \in DOMAIN limiters THEN limiters
  ELSE [k \in DOMAIN limiters \cup {key} |->
          IF k = key THEN 2 * config.Burst ELSE limiters[k]]

\* Allow that grants without taking the token
AllowNoTake(tokens) ==
  IF tokens >= 2 THEN [ok |-> TRUE, tokens |-> tokens]
  ELSE [ok |-> FALSE, tokens |-> tokens]

\* rate.Limiter.Allow on a bucket: [ok, tokens]
Allow(tokens) ==
  IF tokens >= 2 THEN [ok |-> TRUE, tokens |-> tokens - 2]
  ELSE [ok |-> FALSE, tokens |-> tokens]

\* fmt.Sprintf("%.2f", n) for an int n: the verb does not fit the operand
SprintfFloatOfInt(n) == <<"%!f(int=", n, ")">>

\* RateLimitMiddleware.Handle: what the request gets, given Allow's answer
RateLimitAnswer(config, ok) ==
  IF ~ok
  THEN [status |-> 429, next |-> FALSE,
        header |-> [XRateLimitLimit |-> SprintfFloatOfInt(config.RequestsPerSecond),
                    XRateLimitRemaining |-> "0", RetryAfter |-> "1"]]
  ELSE [status |-> 0, next |-> TRUE,
        header |-> [XRateLimitLimit |-> <<>>, XRateLimitRemaining |-> "",
                    RetryAfter |-> ""]]

IdleRateLimit ==
  /\ rlCfg = NewRateLimitMiddleware([key_func |-> "ip"])
  /\ rlLimiters = << >>
  /\ rlNow = 0
  /\ rlLog = <<>>

(***************************************************************************)
(* internal/middleware/auth.go: the JWT middleware.  A token is what       *)
(* jwt.ParseWithClaims makes of the token string: alg is the algorithm of  *)
(* its header, key the secret its signature was made with ("" for an       *)
(* unsigned token), exp and nbf say where the registered times lie         *)
(* relative to the time of the request ("none" when the claim is absent),  *)
(* iss, UserID, Email and Roles are its claims.  A request carries its     *)
(* token at one location (At), under the configured token name.            *)
(***************************************************************************)
NoToken ==
  [alg |-> "", key |-> "", iss |-> "", exp |-> "none", nbf |-> "none",
   UserID |-> "", Email |-> "", Roles |-> <<>>]

\* NewAuthMiddleware: the defaults and the values of the config map
NewAuthMiddleware(config) ==
  LET get(k, d) == IF k \in DOMAIN config THEN config[k] ELSE d
      skip == get("skip_paths", <<>>)
  IN [JWTSecret |-> IF get("jwt_secret", "") # "" THEN get("jwt_secret", "")
                    ELSE get("secret_key", ""),
      JWTIssuer |-> get("jwt_issuer", ""),
      SkipPaths |-> IF "public_paths" \in DOMAIN config /\ Len(skip) = 0
                    THEN config["public_paths"] ELSE skip,
      TokenLocation |-> get("token_location", "header")]

\* AuthMiddleware.extractToken: [err, token]
extractToken(config, r) ==
  IF config.TokenLocation \notin {"header", "cookie", "query"}
  THEN [err |-> "unsupported token location", token |-> NoToken]
  ELSE IF r.At # config.TokenLocation
  THEN [err |-> "token not found", token |-> NoToken]
  ELSE [err |-> "", token |-> r.Token]

\* validateToken that does not look at the issuer
validateTokenAnyIssuer(config, token) ==
  IF token.alg \notin {"HS256", "HS384", "HS512"}
  THEN [err |-> "unexpected signing method", claims |-> NoToken]
  ELSE IF token.key # config.JWTSecret
  THEN [err |-> "signature is invalid", claims |-> NoToken]
  ELSE IF token.exp = "past"
  THEN [err |-> "token is expired", claims |-> NoToken]
  ELSE IF token.nbf = "future"
  THEN [err |-> "token is not valid yet", claims |-> NoToken]
  ELSE [err |-> "", claims |-> token]

\* AuthMiddleware.validateToken: [err, claims].  The key function accepts
\* every method of type *jwt.SigningMethodHMAC (HS256, HS384, HS512); the
\* parser then verifies the signature with the secret and validates exp and
\* nbf; the issuer is compared when one is configured.
validateToken(config, token) ==
  IF token.alg \notin {"HS256", "HS384", "HS512"}
  THEN [err |-> "unexpected signing method", claims |-> NoToken]
  ELSE IF token.key # config.JWTSecret
  THEN [err |-> "signature is invalid", claims |-> NoToken]
  ELSE IF token.exp = "past"
  THEN [err |-> "token is expired", claims |-> NoToken]
  ELSE IF token.nbf = "future"
  THEN [err |-> "token is not valid yet", claims |-> NoToken]
  ELSE IF config.JWTIssuer # "" /\ token.iss # config.JWTIssuer
  THEN [err |-> "invalid token issuer", claims |-> NoToken]
  ELSE [err |-> "", claims |-> token]

\* strings.Join of one-character strings
RECURSIVE Join(_, _)
Join(elems, sep) ==
  IF elems = <<>> THEN <<>>
  ELSE IF Len(elems) = 1 THEN <<elems[1]>>
  ELSE <<elems[1], sep>> \o Join(Tail(elems), sep)

\* AuthMiddleware.Handle: what becomes of the request.  header holds the
\* three request headers the middleware sets before it calls next.
AuthAnswer(config, r) ==
  LET unset == [XUserID |-> "", XUserEmail |-> "", XUserRoles |-> <<>>]
      tok == extractToken(config, r)
      val == validateToken(config, tok.token)
  IN IF \E i \in 1..Len(config.SkipPaths) : HasPrefix(r.Path, config.SkipPaths[i])
     THEN [skipped |-> TRUE, next |-> TRUE, status |-> 0, header |-> unset]
     ELSE IF tok.err # "" \/ val.err # ""
     THEN [skipped |-> FALSE, next |-> FALSE, status |-> 401, header |-> unset]
     ELSE [skipped |-> FALSE, next |-> TRUE, status |-> 0,
           header |-> [XUserID |-> val.claims.UserID,
                       XUserEmail |-> val.claims.Email,
                       XUserRoles |-> Join(val.claims.Roles, ",")]]

IdleAuth ==
  /\ auCfg = NewAuthMiddleware([jwt_secret |-> "s"])
  /\ auLog = <<>>

(***************************************************************************)
(* internal/tls: the Manager.  A certificate is the number of the entry of *)
(* cfg.Certificates it was loaded from; host names are sequences of        *)
(* characters.                                                             *)
(***************************************************************************)
\* Manager.loadManualCertificates and loadCertificate: the map after the
\* entries from position k on were stored over it
RECURSIVE loadManualCertificates(_, _, _)
loadManualCertificates(certificates, k, store) ==
  IF k > Len(certificates) THEN store
  ELSE LET hosts == certificates[k].Hosts IN
       loadManualCertificates(certificates, k + 1,
         [h \in DOMAIN store \cup Range(hosts) |->
            IF h \in Range(hosts) THEN k ELSE store[h]])

\* the GetCertificate callback of Manager.GetTLSConfig: [cert, err, via].
\* pick is the host the range over the map yields first; via "acme" stands
\* for whatever autocertMgr.GetCertificate returns.
GetCertificate(config, store, serverName, pick) ==
  LET colonIndex == IndexOf(serverName, ":")
      requestedHost == IF colonIndex # -1 THEN SubSeq(serverName, 1, colonIndex)
                       ELSE serverName
  IN IF requestedHost = <<>>
     THEN (IF DOMAIN store = {}
           THEN [cert |-> 0, err |-> "no default certificate available",
                 via |-> "default"]
           ELSE [cert |-> store[pick], err |-> "", via |-> "default"])
     ELSE IF requestedHost \in DOMAIN store
     THEN [cert |-> store[requestedHost], err |-> "", via |-> "manual"]
     ELSE IF config.AutoCert
     THEN [cert |-> 0, err |-> "", via |-> "acme"]
     ELSE [cert |-> 0, err |-> "no certificate found for host", via |-> "none"]

\* no ReloadCertificates call so far; loaded: the entries of cfg.Certificates
\* the store was filled from
NoReload(loaded) ==
  [pc |-> "idle", k |-> 0, err |-> "", n |-> 0, files |-> loaded,
   loaded |-> loaded, prev |-> loaded, served |-> {}]

IdleTLS ==
  /\ tlsCfg = [Enabled |-> FALSE, AutoCert |-> FALSE, Certificates |-> <<>>]
  /\ tlsCerts = << >>
  /\ tlsLog = <<>>
  /\ tlsReload = NoReload({})

(***************************************************************************)
(* Specification SpecLB: one balancer, one target list, a run of           *)
(* SelectTarget and UpdateTarget calls.                                    *)
(***************************************************************************)
TargetURLs == <<"http://a", "http://b", "http://c", "http://d", "http://e">>

\* requests as the balancers see them: the two headers and the socket address
LBRequests ==
  { [XRealIP |-> <<"1","0",".","0",".","0",".","1">>, XForwardedFor |-> <<>>,
     RemoteAddr |-> <<"1","0",".","0",".","0",".","9",":","8","0">>],
    [XRealIP |-> <<>>,
     XForwardedFor |-> <<"1","0",".","0",".","0",".","2",","," ","1","0",".","0",".","0",".","1">>,
     RemoteAddr |-> <<"1","0",".","0",".","0",".","9",":","8","0">>],
    [XRealIP |-> <<>>, XForwardedFor |-> <<"1","0",".","0",".","0",".","1">>,
     RemoteAddr |-> <<"1","0",".","0",".","0",".","9",":","8","0">>],
    [XRealIP |-> <<>>, XForwardedFor |-> <<>>,
     RemoteAddr |-> <<"1","0",".","0",".","0",".","7",":","8","0">>],
    [XRealIP |-> <<>>, XForwardedFor |-> <<>>,
     RemoteAddr |-> <<"1","0",".","0",".","0",".","7",":","8","1">>] }

NoRequest == [XRealIP |-> <<>>, XForwardedFor |-> <<>>, RemoteAddr |-> <<>>]

\* target lists as createTargets builds them: Connections is the zero value
LBTargetLists ==
  UNION { { [i \in 1..n |-> [URL |-> TargetURLs[i], IsHealthy |-> flags[i],
                             Connections |-> 0]]
            : flags \in [1..n -> BOOLEAN] } : n \in 0..MaxTargets }

InitLB ==
  /\ lbKind \in {FactoryCreate(s) : s \in Strategies \cup {""}}
  /\ lbTargets \in LBTargetLists
  /\ lbCurrent = 0
  /\ lbN = 0
  /\ lbUpd = 0
  /\ lbLast = [req |-> NoRequest, status |-> 0, err |-> "", idx |-> 0]
  /\ lbCounts = [i \in 1..Len(lbTargets) |-> 0]
  /\ lbSent = {}

(***************************************************************************)
(* internal/proxy/server.go and cmd/proxy/main.go: the life cycle of the   *)
(* proxy server: Start, Shutdown, and configuration reloads.               *)
(***************************************************************************)
MaxServerCalls == 4

\* a *config.Config with the parts Start reads: the routes and upstreams of
\* CfgA, a middleware chain, the two ports and TLS.Enabled
ServerConfig(routes, chain, httpPort, httpsPort, tlsEnabled) ==
  [Routes |-> routes, Upstreams |-> CfgA.Upstreams, Middleware |-> chain,
   Global |-> [HTTPPort |-> httpPort, HTTPSPort |-> httpsPort],
   TLS |-> [Enabled |-> tlsEnabled]]

MwEntry(name, type, enabled, order) ==
  [Name |-> name, Type |-> type, Enabled |-> enabled, Order |-> order]

\* middleware chains without type-specific settings (logging, cors)
ServerChains ==
  { <<>>,
    <<MwEntry("log", "logging", TRUE, 1)>>,
    <<MwEntry("cors", "cors", TRUE, 1)>>,
    <<MwEntry("log", "logging", TRUE, 1), MwEntry("cors", "cors", FALSE, 2)>> }

\* configuration files as LoadConfig may return them
ServerCandidates ==
  { ServerConfig(CfgA.Routes, ch, 80, 443, tlsOn) :
      ch \in ServerChains, tlsOn \in BOOLEAN }
  \cup
  { ServerConfig(CfgBad.Routes, <<>>, 80, 443, FALSE),
    ServerConfig(CfgA.Routes, <<>>, 80, 80, FALSE),
    ServerConfig(CfgA.Routes, <<MwEntry("log", "logging", TRUE, 1),
                                MwEntry("log", "logging", TRUE, 2)>>, 80, 443, FALSE),
    ServerConfig(CfgA.Routes, <<MwEntry("log", "logging", TRUE, 1),
                                MwEntry("gzip", "compression", TRUE, 1)>>, 80, 443, FALSE),
    ServerConfig(CfgA.Routes, <<MwEntry("x", "bogus", TRUE, 1)>>, 80, 443, FALSE) }

\* validateGlobalConfig, on the two ports
validateGlobalConfig(c) ==
  /\ c.Global.HTTPPort >= 1 /\ c.Global.HTTPPort <= 65535
  /\ c.Global.HTTPSPort >= 1 /\ c.Global.HTTPSPort <= 65535
  /\ c.Global.HTTPPort # c.Global.HTTPSPort

\* ValidateConfig of a configuration with its Global part; validateTLSConfig
\* accepts every TLS part of the model (no auto-cert, no certificate entries)
ValidateServerConfig(c) == validateGlobalConfig(c) /\ ValidateConfig(c)

\* Factory.Create of package middleware: the error it returns
MiddlewareCreateErr(type) ==
  IF type \in {"logging", "rate_limit", "auth", "compression"} THEN ""
  ELSE "unknown middleware type"

\* Factory.CreateChain: the error of the first enabled entry, in Order,
\* that Create refuses
CreateChainErr(chainCfg) ==
  LET types == CreateChain(chainCfg)
      bad == {i \in 1..Len(types) : MiddlewareCreateErr(types[i]) # ""}
  IN IF bad = {} THEN ""
     ELSE MiddlewareCreateErr(types[CHOOSE i \in bad : \A j \in bad : i <= j])

NoServer == [call |-> 0, port |-> 0]

\* http.Server.ListenAndServe in the goroutine Start launches: the listener
\* is bound unless another serving object holds the port
ListenAndServe(serving, srv) ==
  IF \E o \in serving : o.port = srv.port THEN serving ELSE serving \cup {srv}

ServerCall(op, c, err) ==
  [op |-> op, cfg |-> c, err |-> err, wasRunning |-> srvRunning]

\* main: ValidateConfig, tls.NewManager(&cfg.TLS), proxy.NewServer
InitServer ==
  /\ srvCfg \in {c \in ServerCandidates : ValidateServerConfig(c)}
  /\ srvMgrEnabled = srvCfg.TLS.Enabled
  /\ srvRunning = FALSE
  /\ srvShutdown = "open"
  /\ srvHTTP = NoServer
  /\ srvHTTPS = NoServer
  /\ srvServing = {}
  /\ srvPanic = FALSE
  /\ srvLog = <<>>

IdleServer ==
  /\ srvCfg = ServerConfig(CfgA.Routes, <<>>, 80, 443, FALSE)
  /\ srvMgrEnabled = FALSE
  /\ srvRunning = FALSE
  /\ srvShutdown = "open"
  /\ srvHTTP = NoServer
  /\ srvHTTPS = NoServer
  /\ srvServing = {}
  /\ srvPanic = FALSE
  /\ srvLog = <<>>

\* server.Start: the whole call under s.mu, the listeners of its goroutines
\* included
ServerStart ==
  /\ ~srvPanic
  /\ Len(srvLog) < MaxServerCalls
  /\ LET n == Len(srvLog) + 1
         chainErr == CreateChainErr(srvCfg.Middleware)
         http == [call |-> n, port |-> srvCfg.Global.HTTPPort]
         https == [call |-> n, port |-> srvCfg.Global.HTTPSPort]
         withHTTP == srvCfg.Global.HTTPPort > 0
         withHTTPS == srvCfg.Global.HTTPSPort > 0 /\ srvCfg.TLS.Enabled
         afterHTTP == IF withHTTP THEN ListenAndServe(srvServing, http)
                      ELSE srvServing
     IN IF srvRunning
        THEN /\ srvLog' = Append(srvLog, ServerCall("Start", srvCfg,
                                                   "server is already running"))
             /\ UNCHANGED <<srvRunning, srvHTTP, srvHTTPS, srvServing>>
        ELSE IF chainErr # ""
        THEN /\ srvLog' = Append(srvLog, ServerCall("Start", srvCfg, chainErr))
             /\ UNCHANGED <<srvRunning, srvHTTP, srvHTTPS, srvServing>>
        ELSE IF withHTTPS /\ ~srvMgrEnabled
        THEN \* GetTLSConfig: "TLS is disabled"; the HTTP goroutine was launched
             /\ srvLog' = Append(srvLog, ServerCall("Start", srvCfg,
                                                   "failed to get TLS config"))
             /\ srvHTTP' = IF withHTTP THEN http ELSE srvHTTP
             /\ srvServing' = afterHTTP
             /\ UNCHANGED <<srvRunning, srvHTTPS>>
        ELSE /\ srvLog' = Append(srvLog, ServerCall("Start", srvCfg, ""))
             /\ srvHTTP' = IF withHTTP THEN http ELSE srvHTTP
             /\ srvHTTPS' = IF withHTTPS THEN https ELSE srvHTTPS
             /\ srvServing' = IF withHTTPS THEN ListenAndServe(afterHTTP, https)
                              ELSE afterHTTP
             /\ srvRunning' = TRUE
  /\ UNCHANGED <<srvCfg, srvMgrEnabled, srvShutdown, srvPanic>>
  /\ UNCHANGED <<lbvars, hvars, rtvars, pvars, rlvars, avars, tvars, cvars, gvars>>

\* server.Shutdown: running is cleared, the channel closed (a panic when it
\* is closed already, which ends the process), both servers shut down
ServerShutdown ==
  /\ ~srvPanic
  /\ Len(srvLog) < MaxServerCalls
  /\ IF ~srvRunning
     THEN /\ srvLog' = Append(srvLog, ServerCall("Shutdown", srvCfg, ""))
          /\ UNCHANGED <<srvRunning, srvShutdown, srvServing, srvPanic>>
     ELSE IF srvShutdown = "closed"
     THEN /\ srvLog' = Append(srvLog, ServerCall("Shutdown", srvCfg,
                                                "panic: close of closed channel"))
          /\ srvRunning' = FALSE
          /\ srvPanic' = TRUE
          /\ srvServing' = {}
          /\ UNCHANGED srvShutdown
     ELSE /\ srvLog' = Append(srvLog, ServerCall("Shutdown", srvCfg, ""))
          /\ srvRunning' = FALSE
          /\ srvShutdown' = "closed"
          /\ srvServing' = srvServing \ {srvHTTP, srvHTTPS}
          /\ UNCHANGED srvPanic
  /\ UNCHANGED <<srvCfg, srvMgrEnabled, srvHTTP, srvHTTPS>>
  /\ UNCHANGED <<lbvars, hvars, rtvars, pvars, rlvars, avars, tvars, cvars, gvars>>

\* main's watcher goroutine on a write event: LoadConfig, ValidateConfig and,
\* when that accepts, server.UpdateConfig (s.cfg = cfg; the load balancers
\* of the new configuration are those of SpecHandler)
ServerReload(c) ==
  /\ ~srvPanic
  /\ Len(srvLog) < MaxServerCalls
  /\ IF ValidateServerConfig(c)
     THEN /\ srvCfg' = c
          /\ srvLog' = Append(srvLog, ServerCall("Reload", c, ""))
     ELSE /\ srvLog' = Append(srvLog, ServerCall("Reload", c, "validation failed"))
          /\ UNCHANGED srvCfg
  /\ UNCHANGED <<srvMgrEnabled, srvRunning, srvShutdown, srvHTTP, srvHTTPS,
                 srvServing, srvPanic>>
  /\ UNCHANGED <<lbvars, hvars, rtvars, pvars, rlvars, avars, tvars, cvars, gvars>>

(***************************************************************************)
(* internal/health/checker.go: Start, run and Stop.                        *)
(***************************************************************************)
\* Start of a checker that never closes done itself
StartClosesDoneNever(enabled) == FALSE

\* Start: close(c.done) when the checker is disabled (no run goroutine will)
StartClosesDone(enabled) == ~enabled

\* NewChecker: both channels open, no goroutine
IdleChecker ==
  /\ ckStarted = FALSE
  /\ ckLoop = "none"
  /\ ckStopCh = "open"
  /\ ckDone = FALSE
  /\ ckStop = "none"

\* checker.Start
CheckerStart ==
  /\ ~ckStarted
  /\ ckStarted' = TRUE
  /\ ckDone' = StartClosesDone(hEnabled)
  /\ ckLoop' = IF hEnabled THEN "running" ELSE ckLoop
  /\ UNCHANGED <<ckStopCh, ckStop>>
  /\ UNCHANGED <<lbvars, hvars, rtvars, pvars, rlvars, avars, tvars, svars, gvars>>

\* checker.run, the ticker case of the select: performHealthChecks starts
\* the probes; the loop is back at the select when wg.Wait() returned, that
\* is when hPending is empty again
runTick ==
  /\ ckLoop = "running"
  /\ hPending = {}
  /\ hTicks < MaxTicks
  /\ hPending' = DOMAIN htargets
  /\ hTicks' = hTicks + 1
  /\ UNCHANGED <<hEnabled, htargets, hHist, hExisting, hSeen>>
  /\ UNCHANGED <<lbvars, rtvars, pvars, rlvars, avars, tvars, svars, cvars, gvars>>

\* checker.run, the stopCh case of the select: return, and the deferred
\* close(c.done)
runStop ==
  /\ ckLoop = "running"
  /\ hPending = {}
  /\ ckStopCh = "closed"
  /\ ckLoop' = "exited"
  /\ ckDone' = TRUE
  /\ UNCHANGED <<ckStarted, ckStopCh, ckStop>>
  /\ UNCHANGED <<lbvars, hvars, rtvars, pvars, rlvars, avars, tvars, svars, gvars>>

\* checker.Stop up to the receive: close(c.stopCh)
CheckerStop ==
  /\ ckStarted
  /\ ckStop = "none"
  /\ ckStopCh' = "closed"
  /\ ckStop' = "waiting"
  /\ UNCHANGED <<ckStarted, ckLoop, ckDone>>
  /\ UNCHANGED <<lbvars, hvars, rtvars, pvars, rlvars, avars, tvars, svars, gvars>>

\* checker.Stop: <-c.done returns once done is closed
StopReturn ==
  /\ ckStop = "waiting"
  /\ ckDone
  /\ ckStop' = "returned"
  /\ UNCHANGED <<ckStarted, ckLoop, ckStopCh, ckDone>>
  /\ UNCHANGED <<lbvars, hvars, rtvars, pvars, rlvars, avars, tvars, svars, gvars>>

(***************************************************************************)
(* internal/middleware/ratelimit.go: getLimiter and Cleanup under          *)
(* concurrent requests.  rlm.mu is held by Cleanup from its Lock to the    *)
(* deferred Unlock; the critical sections of getLimiter are single steps.  *)
(* No time passes (no refill): a bucket is full until a token is taken.    *)
(***************************************************************************)
NumCallers == 2
MaxCallerRequests == 2
MaxCleanups == 1
LimiterBurst == 2
LimiterKeys == {"k1", "k2"}

NoCaller == [pc |-> "idle", key |-> "", limiter |-> 0, n |-> 0]
NoCleanup == [pc |-> "idle", todo |-> {}, key |-> "", full |-> FALSE, n |-> 0]

\* getLimiter, the test under the write lock: "limiter, exists = rlm.limiters[key]"
getLimiterWriteExists(limiters, key) == key \in DOMAIN limiters

IdleLimiters ==
  /\ glLimiters = << >>
  /\ glObjs = <<>>
  /\ glCallers = [c \in 1..NumCallers |-> NoCaller]
  /\ glCleanup = NoCleanup
  /\ glDeleted = <<>>

\* the mutex is free for a reader or writer
LimitersUnlocked == glCleanup.pc = "idle"

\* Handle: getKey, then getLimiter up to RUnlock: the map read under RLock
GetLimiterRead(c, key) ==
  /\ glCallers[c].pc = "idle"
  /\ glCallers[c].n < MaxCallerRequests
  /\ LimitersUnlocked
  /\ glCallers' = [glCallers EXCEPT ![c] =
       IF key \in DOMAIN glLimiters
       THEN [pc |-> "have", key |-> key, limiter |-> glLimiters[key], n |-> @.n + 1]
       ELSE [pc |-> "write", key |-> key, limiter |-> 0, n |-> @.n + 1]]
  /\ UNCHANGED <<glLimiters, glObjs, glCleanup, glDeleted>>
  /\ UNCHANGED <<lbvars, hvars, rtvars, pvars, rlvars, avars, tvars, svars, cvars>>

\* getLimiter, the section under Lock: the second look, rate.NewLimiter and
\* the store when the key is still absent
GetLimiterWrite(c) ==
  /\ glCallers[c].pc = "write"
  /\ LimitersUnlocked
  /\ LET key == glCallers[c].key IN
     IF getLimiterWriteExists(glLimiters, key)
     THEN /\ glCallers' = [glCallers EXCEPT ![c].pc = "have",
                                            ![c].limiter = glLimiters[key]]
          /\ UNCHANGED <<glLimiters, glObjs>>
     ELSE /\ glObjs' = Append(glObjs, [key |-> key, tokens |-> LimiterBurst])
          /\ glLimiters' = MapPut(glLimiters, key, Len(glObjs) + 1)
          /\ glCallers' = [glCallers EXCEPT ![c].pc = "have",
                                            ![c].limiter = Len(glObjs) + 1]
  /\ UNCHANGED <<glCleanup, glDeleted>>
  /\ UNCHANGED <<lbvars, hvars, rtvars, pvars, rlvars, avars, tvars, svars, cvars>>

\* Handle: limiter.Allow() on the limiter getLimiter returned (the limiter's
\* own lock, not rlm.mu), and the answer
LimiterAllow(c) ==
  /\ glCallers[c].pc = "have"
  /\ LET id == glCallers[c].limiter IN
     glObjs' = [glObjs EXCEPT ![id].tokens = IF @ > 0 THEN @ - 1 ELSE @]
  /\ glCallers' = [glCallers EXCEPT ![c].pc = "idle"]
  /\ UNCHANGED <<glLimiters, glCleanup, glDeleted>>
  /\ UNCHANGED <<lbvars, hvars, rtvars, pvars, rlvars, avars, tvars, svars, cvars>>

\* Cleanup: rlm.mu.Lock() and the start of the range over the map
CleanupLock ==
  /\ glCleanup.pc = "idle"
  /\ glCleanup.n < MaxCleanups
  /\ glCleanup' = [pc |-> "range", todo |-> DOMAIN glLimiters, key |-> "",
                   full |-> FALSE, n |-> glCleanup.n + 1]
  /\ UNCHANGED <<glLimiters, glObjs, glCallers, glDeleted>>
  /\ UNCHANGED <<lbvars, hvars, rtvars, pvars, rlvars, avars, tvars, svars, cvars>>

\* Cleanup, one iteration up to the comparison: limiter.Tokens() == Burst
CleanupCheck(key) ==
  /\ glCleanup.pc = "range"
  /\ key \in glCleanup.todo
  /\ glCleanup' = [glCleanup EXCEPT
       !.pc = "checked", !.key = key, !.todo = @ \ {key},
       !.full = (glObjs[glLimiters[key]].tokens = LimiterBurst)]
  /\ UNCHANGED <<glLimiters, glObjs, glCallers, glDeleted>>
  /\ UNCHANGED <<lbvars, hvars, rtvars, pvars, rlvars, avars, tvars, svars, cvars>>

\* Cleanup, the rest of the iteration: delete(rlm.limiters, key) when the
\* comparison held
CleanupDelete ==
  /\ glCleanup.pc = "checked"
  /\ LET key == glCleanup.key
         id == glLimiters[key]
     IN IF glCleanup.full
        THEN /\ glLimiters' = MapDelete(glLimiters, key)
             /\ glDeleted' = Append(glDeleted, [key |-> key, limiter |-> id,
                                                tokens |-> glObjs[id].tokens])
        ELSE UNCHANGED <<glLimiters, glDeleted>>
  /\ glCleanup' = [glCleanup EXCEPT !.pc = "range"]
  /\ UNCHANGED <<glObjs, glCallers>>
  /\ UNCHANGED <<lbvars, hvars, rtvars, pvars, rlvars, avars, tvars, svars, cvars>>

\* Cleanup: the end of the range and the deferred Unlock
CleanupUnlock ==
  /\ glCleanup.pc = "range"
  /\ glCleanup.todo = {}
  /\ glCleanup' = [glCleanup EXCEPT !.pc = "idle"]
  /\ UNCHANGED <<glLimiters, glObjs, glCallers, glDeleted>>
  /\ UNCHANGED <<lbvars, hvars, rtvars, pvars, rlvars, avars, tvars, svars, cvars>>

\* the state of a component that takes no part in a specification
IdleLB ==
  /\ lbKind = "round_robin"
  /\ lbTargets = <<>>
  /\ lbCurrent = 0
  /\ lbN = 0
  /\ lbUpd = 0
  /\ lbLast = [req |-> NoRequest, status |-> 0, err |-> "", idx |-> 0]
  /\ lbCounts = <<>>
  /\ lbSent = {}

IdleHealth ==
  /\ hEnabled = FALSE
  /\ htargets = << >>
  /\ hPending = {}
  /\ hTicks = 0
  /\ hHist = << >>
  /\ hExisting = << >>
  /\ hSeen = <<>>

\* the handler's selection step on the balancer
LBSelect(req) ==
  /\ lbN < MaxSelections
  /\ LET r == HandlerSelect(lbKind, lbTargets, lbCurrent, req) IN
     /\ lbCurrent' = r.current
     /\ lbLast' = [req |-> req, status |-> r.status, err |-> r.err, idx |-> r.idx]
     /\ lbCounts' = IF r.idx = 0 THEN lbCounts
                    ELSE [lbCounts EXCEPT ![r.idx] = @ + 1]
     /\ lbSent' = IF lbKind = "ip_hash" THEN lbSent \cup {<<req, r.idx>>}
                  ELSE lbSent
  /\ lbN' = lbN + 1
  /\ UNCHANGED <<lbKind, lbTargets, lbUpd, hvars, rtvars, pvars, rlvars, avars, tvars, svars, cvars, gvars>>

\* lb.UpdateTarget(target, delta) on one target of the list
LBUpdate(i, delta) ==
  /\ lbUpd < MaxUpdates
  /\ i \in 1..Len(lbTargets)
  /\ lbTargets' = [lbTargets EXCEPT
                     ![i].Connections = UpdateTarget(lbKind, @, delta)]
  /\ lbUpd' = lbUpd + 1
  /\ UNCHANGED <<lbKind, lbCurrent, lbN, lbLast, lbCounts, lbSent, hvars, rtvars, pvars, rlvars, avars, tvars, svars, cvars, gvars>>

NextLB ==
  \/ \E req \in LBRequests : LBSelect(req)
  \/ \E i \in 1..MaxTargets, delta \in {1, -1} : LBUpdate(i, delta)

\* one balancer in use; the other components stay as constructed
InitSpecLB == InitLB /\ IdleHealth /\ IdleRetry /\ IdleProxy /\ IdleRateLimit /\ IdleAuth /\ IdleTLS /\ IdleServer /\ IdleChecker /\ IdleLimiters

SpecLB == InitSpecLB /\ [][NextLB]_vars

\* the health checker in use
InitSpecHealth == InitHealth /\ IdleLB /\ IdleRetry /\ IdleProxy /\ IdleRateLimit /\ IdleAuth /\ IdleTLS /\ IdleServer /\ IdleChecker /\ IdleLimiters

SpecHealth == InitSpecHealth /\ [][NextHealth]_vars

\* one retry handler in use
InitSpecRetry == InitRetry /\ IdleLB /\ IdleHealth /\ IdleProxy /\ IdleRateLimit /\ IdleAuth /\ IdleTLS /\ IdleServer /\ IdleChecker /\ IdleLimiters

SpecRetry == InitSpecRetry /\ [][NextRetry]_vars

\* every started call of ServeHTTP keeps running: the wrapped handler returns
\* and time.Sleep(backoff) ends
SpecRetryFair == InitSpecRetry /\ [][NextRetry]_vars /\ WF_vars(NextRetry)

\* the proxy serving requests while the watcher reloads the configuration
InitSpec == InitProxy /\ IdleLB /\ IdleRetry /\ IdleHealth /\ IdleRateLimit /\ IdleAuth /\ IdleTLS /\ IdleServer /\ IdleChecker /\ IdleLimiters

Spec == InitSpec /\ [][NextProxy]_vars


(***************************************************************************)
(* Specification SpecHandler: the handler chain of a server that NewServer *)
(* and Start set up with one configuration and one health checker; a hot   *)
(* reload of the same files, or of the files with one target deleted, may  *)
(* be in progress.                                                         *)
(***************************************************************************)
HostH == <<"h">>
HostV6 == <<"[", ":", ":", "1", "]">>

Rule(host, path, methods, upstream, rewrite, middleware, attempts) ==
  [Host |-> host, Path |-> path, Methods |-> methods, Upstream |-> upstream,
   Rewrite |-> rewrite, Middleware |-> middleware, Attempts |-> attempts,
   Headers |-> << >>]

\* "nope" names no middleware definition, "gzip" a disabled one
RuleExact ==
  Rule(HostH, <<"/","x">>, <<"POST">>, "api", NoRewrite,
       <<"log", "gzip", "nope", "limit">>, 0)
\* a route with a retry policy and a response header of its own
RuleStatic ==
  [Rule(HostH, <<"/","s","/","*">>, <<>>, "api",
        [NoRewrite EXCEPT !.StripPrefix = <<"/","s">>], <<"log">>, 1)
     EXCEPT !.Headers = ("X-Route" :> "s")]
RuleV6 ==
  Rule(HostV6, <<"/","*">>, <<>>, "api",
       [NoRewrite EXCEPT !.AddPrefix = <<"/","v">>], <<>>, 0)
RuleBadRegex ==
  Rule(HostH, <<"/","r">>, <<>>, "api",
       [NoRewrite EXCEPT !.Regex = <<"(">>, !.Replacement = <<"y">>], <<>>, 0)
RuleGhost == Rule(HostH, <<"/","g">>, <<>>, "ghost", NoRewrite, <<>>, 0)
RuleAny ==
  Rule(<<>>, <<"/","*">>, <<"GET">>, "api",
       [StripPrefix |-> <<"/","s">>, AddPrefix |-> <<"/","v">>,
        Regex |-> <<"v","/">>, Replacement |-> <<"w","/">>], <<>>, 0)

\* a configuration that ValidateConfig accepts: two middleware enabled, one
\* disabled
CfgRoutes ==
  [Routes |-> <<RuleExact, RuleStatic, RuleV6>>,
   Upstreams |-> ("api" :> [LoadBalancer |-> "least_connections",
                            Targets |-> TargetsAB]),
   Middleware |-> << [Name |-> "log", Type |-> "logging", Enabled |-> TRUE,
                      Order |-> 2],
                     [Name |-> "limit", Type |-> "rate_limit", Enabled |-> TRUE,
                      Order |-> 1],
                     [Name |-> "gzip", Type |-> "compression", Enabled |-> FALSE,
                      Order |-> 0] >>]

\* a configuration handed to NewServer without validation
CfgLoose ==
  [Routes |-> <<RuleBadRegex, RuleGhost, RuleAny>>,
   Upstreams |-> ("api" :> [LoadBalancer |-> "round_robin",
                            Targets |-> TargetsAB]),
   Middleware |-> <<>>]

HandlerConfigs == {CfgRoutes, CfgLoose}

ClientAddr == <<"1","0",".","0",".","0",".","7",":","8","0">>

Request(host, path, method) ==
  [Host |-> host, Path |-> path, Method |-> method, XRealIP |-> <<>>,
   XForwardedFor |-> <<>>, RemoteAddr |-> ClientAddr]

HandlerRequests ==
  { Request(<<"h",":","8","0">>, <<"/","x">>, "POST"),
    Request(HostH, <<"/","x">>, "GET"),
    Request(<<"h",":","8","0">>, <<"/","s","/","c">>, "GET"),
    Request(HostH, <<"/","s">>, "GET"),
    Request(HostV6 \o <<":","8","0">>, <<"/","z">>, "GET"),
    Request(HostH, <<"/","r">>, "GET"),
    Request(HostH, <<"/","g">>, "GET") }

\* the stored health of a target after the probes in hist
RECURSIVE HealthAfter(_)
HealthAfter(hist) ==
  IF hist = <<>> THEN NewTargetHealth
  ELSE updateTargetHealth(HealthAfter(SubSeq(hist, 1, Len(hist) - 1)),
                          hist[Len(hist)], DefaultFailureThreshold,
                          DefaultSuccessThreshold)

\* probe histories of the checker handed to NewServer
HandlerHealthHists ==
  { << >>,
    ("http://a" :> <<FALSE, FALSE, FALSE>>) @@ ("http://b" :> <<TRUE, TRUE>>),
    ("http://a" :> <<FALSE, FALSE, FALSE>>) @@ ("http://b" :> <<FALSE, FALSE, FALSE>>) }

\* the configuration c after target url was deleted from its upstreams
RemoveTarget(c, url) ==
  [c EXCEPT !.Upstreams =
     [n \in DOMAIN c.Upstreams |->
        [c.Upstreams[n] EXCEPT !.Targets = SelectSeq(@, LAMBDA t : t.URL # url)]]]

InitHandler ==
  /\ \E c \in HandlerConfigs, reloading \in BOOLEAN :
     \E d \in {c, RemoveTarget(c, "http://b")} :
       /\ reloading => ValidateConfig(d)
       /\ ~reloading => d = c
       /\ snaps = IF reloading THEN <<c, d>> ELSE <<c>>
       /\ cfg = IF reloading THEN 2 ELSE 1
       /\ loadBalancers = InitialBalancers(c).map
       /\ lbMapGen = 1
       /\ lbs = InitialBalancers(c).objs
       /\ wpc = IF reloading THEN "make" ELSE "idle"
       /\ wLog = IF reloading
                 THEN <<[loaded |-> [err |-> "", cfg |-> d], result |-> "reloaded"]>>
                 ELSE <<>>
  /\ reqs = [r \in Reqs |-> NewReq]
  /\ hEnabled = TRUE
  /\ hHist \in HandlerHealthHists
  /\ htargets = [u \in DOMAIN hHist |-> HealthAfter(hHist[u])]
  /\ hPending = {}
  /\ hTicks = 0
  /\ hExisting = << >>
  /\ hSeen = <<>>

InitSpecHandler == InitHandler /\ IdleLB /\ IdleRetry /\ IdleRateLimit /\ IdleAuth /\ IdleTLS /\ IdleServer /\ IdleChecker /\ IdleLimiters

NextHandler ==
  \/ \E r \in Reqs, in \in HandlerRequests : HandlerRoute(r, in)
  \/ \E r \in Reqs : HandlerUpstream(r)
  \/ \E r \in Reqs : HandlerBalancer(r)
  \/ \E r \in Reqs : HandlerTarget(r)
  \/ \E r \in Reqs : HandlerMiddleware(r)
  \/ \E r \in Reqs, outcome \in ProxyBackendOutcomes : HandlerServe(r, outcome)
  \/ UpdateConfigMakeMap
  \/ \E name \in UpstreamNames : UpdateConfigAddBalancer(name)

SpecHandler == InitSpecHandler /\ [][NextHandler]_vars

(***************************************************************************)
(* Specification SpecRateLimit: one rate limiter and a run of requests.    *)
(***************************************************************************)
\* the middleware configuration maps of the model
RLRawConfigs ==
  { [requests_per_second |-> 1, burst |-> 1, key_func |-> "ip"],
    [requests_per_second |-> 1, burst |-> 1, key_func |-> "user"],
    [requests_per_second |-> 1, burst |-> 1, key_func |-> "global"],
    [requests_per_second |-> 2, burst |-> 2],
    [key_func |-> "client"] }

\* the requests of SpecLB, without and with an X-User-ID header
WithUser(req, user) ==
  [XRealIP |-> req.XRealIP, XForwardedFor |-> req.XForwardedFor,
   RemoteAddr |-> req.RemoteAddr, XUserID |-> user]

RLRequests ==
  {WithUser(req, <<>>) : req \in LBRequests}
    \cup {WithUser(req, <<"u">>) :
            req \in {q \in LBRequests : q.XRealIP # <<>>}}

InitRateLimit ==
  /\ rlCfg \in {NewRateLimitMiddleware(c) : c \in RLRawConfigs}
  /\ rlLimiters = << >>
  /\ rlNow = 0
  /\ rlLog = <<>>

\* one request through RateLimitMiddleware.Handle
RateLimitHandle(r) ==
  /\ Len(rlLog) < MaxRLRequests
  /\ LET key == getKey(rlCfg, r)
         limiters == getLimiter(rlLimiters, rlCfg, key)
         a == Allow(limiters[key])
         ans == RateLimitAnswer(rlCfg, a.ok)
     IN /\ rlLimiters' = [limiters EXCEPT ![key] = a.tokens]
        /\ rlLog' = Append(rlLog, [req |-> r, key |-> key, at |-> rlNow,
                                   fresh |-> key \notin DOMAIN rlLimiters,
                                   granted |-> a.ok, status |-> ans.status,
                                   next |-> ans.next, header |-> ans.header])
  /\ UNCHANGED <<rlCfg, rlNow, lbvars, hvars, rtvars, pvars, avars, tvars, svars, cvars, gvars>>

\* half a second passes: every bucket gains rps / 2 tokens, up to burst
RateLimitElapse ==
  /\ rlNow < MaxRLTicks
  /\ rlNow' = rlNow + 1
  /\ rlLimiters' = [k \in DOMAIN rlLimiters |->
                      Min(2 * rlCfg.Burst, rlLimiters[k] + rlCfg.RequestsPerSecond)]
  /\ UNCHANGED <<rlCfg, rlLog, lbvars, hvars, rtvars, pvars, avars, tvars, svars, cvars, gvars>>

NextRateLimit ==
  \/ \E r \in RLRequests : RateLimitHandle(r)
  \/ RateLimitElapse

InitSpecRateLimit ==
  InitRateLimit /\ IdleLB /\ IdleHealth /\ IdleRetry /\ IdleProxy /\ IdleAuth /\ IdleTLS /\ IdleServer /\ IdleChecker /\ IdleLimiters

SpecRateLimit == InitSpecRateLimit /\ [][NextRateLimit]_vars

(***************************************************************************)
(* Specification SpecRouteLimit: a route whose middleware list names a     *)
(* rate_limit definition, and a run of requests on that route.             *)
(***************************************************************************)
\* one request on the route: createMainHandler calls applyRouteMiddleware for
\* the request, which has the factory create the middleware
\* (NewRateLimitMiddleware: an empty limiters map), and the request passes
\* the Handle of that instance; rlLimiters is the map of the latest instance
RouteRateLimitHandle(r) ==
  /\ Len(rlLog) < MaxRLRequests
  /\ LET created == << >>
         key == getKey(rlCfg, r)
         limiters == getLimiter(created, rlCfg, key)
         a == Allow(limiters[key])
         ans == RateLimitAnswer(rlCfg, a.ok)
     IN /\ rlLimiters' = [limiters EXCEPT ![key] = a.tokens]
        /\ rlLog' = Append(rlLog, [req |-> r, key |-> key, at |-> rlNow,
                                   fresh |-> key \notin DOMAIN created,
                                   granted |-> a.ok, status |-> ans.status,
                                   next |-> ans.next, header |-> ans.header])
  /\ UNCHANGED <<rlCfg, rlNow, lbvars, hvars, rtvars, pvars, avars, tvars, svars, cvars, gvars>>

NextRouteLimit ==
  \/ \E r \in RLRequests : RouteRateLimitHandle(r)
  \/ RateLimitElapse

SpecRouteLimit == InitSpecRateLimit /\ [][NextRouteLimit]_vars

(***************************************************************************)
(* Specification SpecLimiters: request goroutines of one rate limiter and  *)
(* a Cleanup call, step by step.                                           *)
(***************************************************************************)
NextLimiters ==
  \/ \E c \in 1..NumCallers, key \in LimiterKeys : GetLimiterRead(c, key)
  \/ \E c \in 1..NumCallers : GetLimiterWrite(c)
  \/ \E c \in 1..NumCallers : LimiterAllow(c)
  \/ CleanupLock
  \/ \E key \in LimiterKeys : CleanupCheck(key)
  \/ CleanupDelete
  \/ CleanupUnlock

InitSpecLimiters ==
  IdleLimiters /\ IdleLB /\ IdleHealth /\ IdleRetry /\ IdleProxy /\ IdleRateLimit /\ IdleAuth /\ IdleTLS /\ IdleServer /\ IdleChecker

SpecLimiters == InitSpecLimiters /\ [][NextLimiters]_vars

(***************************************************************************)
(* Specification SpecAuth: one AuthMiddleware and a run of requests.       *)
(***************************************************************************)
MaxAuthRequests == 2

\* the middleware configuration maps of the model; secret "s", issuer "i",
\* public prefix /p
AuthRawConfigs ==
  { [jwt_secret |-> "s", jwt_issuer |-> "i", public_paths |-> << <<"/","p">> >>],
    [secret_key |-> "s", skip_paths |-> << <<"/","p">> >>,
     token_location |-> "query"],
    [jwt_secret |-> "s"] }

\* an HS256 token of issuer "i" signed with "s", valid now
GoodToken ==
  [alg |-> "HS256", key |-> "s", iss |-> "i", exp |-> "future", nbf |-> "past",
   UserID |-> "u", Email |-> "e", Roles |-> <<"a", "b">>]

AuthTokens ==
  {GoodToken}
    \cup {[GoodToken EXCEPT !.alg = a] : a \in {"HS384", "HS512", "RS256"}}
    \cup {[GoodToken EXCEPT !.alg = "none", !.key = ""],
          [GoodToken EXCEPT !.key = "x"],
          [GoodToken EXCEPT !.iss = "j"],
          [GoodToken EXCEPT !.exp = "past"],
          [GoodToken EXCEPT !.exp = "none"],
          [GoodToken EXCEPT !.nbf = "future"]}

AuthRequests ==
  {[Path |-> p, At |-> "none", Token |-> NoToken] :
     p \in {<<"/","p","/","x">>, <<"/","q">>}}
    \cup {[Path |-> <<"/","q">>, At |-> loc, Token |-> t] :
            loc \in {"header", "query"}, t \in AuthTokens}

InitAuth ==
  /\ auCfg \in {NewAuthMiddleware(c) : c \in AuthRawConfigs}
  /\ auLog = <<>>

\* one request through AuthMiddleware.Handle
AuthHandle(r) ==
  /\ Len(auLog) < MaxAuthRequests
  /\ auLog' = Append(auLog, [req |-> r, ans |-> AuthAnswer(auCfg, r)])
  /\ UNCHANGED <<auCfg, lbvars, hvars, rtvars, pvars, rlvars, tvars, svars, cvars, gvars>>

NextAuth == \E r \in AuthRequests : AuthHandle(r)

InitSpecAuth ==
  InitAuth /\ IdleLB /\ IdleHealth /\ IdleRetry /\ IdleProxy /\ IdleRateLimit /\ IdleTLS /\ IdleServer /\ IdleChecker /\ IdleLimiters

SpecAuth == InitSpecAuth /\ [][NextAuth]_vars

(***************************************************************************)
(* Specification SpecTLS: the certificate store after NewManager and a run *)
(* of handshakes.  ReloadCertificates has no caller.                       *)
(***************************************************************************)
MaxHandshakes == 2

HostA == <<"a", ".", "x">>
HostB == <<"b", ".", "x">>

\* TLS enabled: one certificate per host; one certificate for both hosts and
\* ACME; no manual certificate
TLSConfigs ==
  { [Enabled |-> TRUE, AutoCert |-> FALSE,
     Certificates |-> << [Hosts |-> <<HostA>>], [Hosts |-> <<HostB>>] >>],
    [Enabled |-> TRUE, AutoCert |-> TRUE,
     Certificates |-> << [Hosts |-> <<HostA, HostB>>] >>],
    [Enabled |-> TRUE, AutoCert |-> FALSE, Certificates |-> <<>>] }

\* the server names clients send
ServerNames ==
  { <<>>, HostA, HostA \o <<":", "8">>, <<"A", ".", "X">>, HostB,
    <<"c", ".", "x">>, <<":", "8">> }

InitTLS ==
  /\ tlsCfg \in TLSConfigs
  /\ tlsCerts = loadManualCertificates(tlsCfg.Certificates, 1, << >>)
  /\ tlsLog = <<>>
  /\ tlsReload = NoReload(DOMAIN tlsCfg.Certificates)

\* one handshake: the callback is called with the client's server name
Handshake(serverName, pick) ==
  /\ Len(tlsLog) < MaxHandshakes
  /\ IF DOMAIN tlsCerts = {} THEN pick = <<>> ELSE pick \in DOMAIN tlsCerts
  /\ tlsLog' = Append(tlsLog, [sni |-> serverName, reload |-> tlsReload,
                               res |-> GetCertificate(tlsCfg, tlsCerts,
                                                      serverName, pick)])
  /\ UNCHANGED <<tlsCfg, tlsCerts, tlsReload, lbvars, hvars, rtvars, pvars, rlvars, avars, svars, cvars, gvars>>

NextTLS ==
  \E serverName \in ServerNames, pick \in {<<>>, HostA, HostB} :
    Handshake(serverName, pick)

InitSpecTLS ==
  InitTLS /\ IdleLB /\ IdleHealth /\ IdleRetry /\ IdleProxy /\ IdleRateLimit /\ IdleAuth /\ IdleServer /\ IdleChecker /\ IdleLimiters

SpecTLS == InitSpecTLS /\ [][NextTLS]_vars

(***************************************************************************)
(* Specification SpecReload: a TLS manager serving handshakes while        *)
(* ReloadCertificates runs.                                                *)
(***************************************************************************)
MaxReloads == 1

\* ReloadCertificates, its first critical section: the map is replaced by an
\* empty one.  files: the entries whose files load at this time.
ReloadClear(files) ==
  /\ tlsReload.pc # "loading"
  /\ tlsReload.n < MaxReloads
  /\ files \subseteq DOMAIN tlsCfg.Certificates
  /\ tlsCerts' = << >>
  /\ tlsReload' = [pc |-> "loading", k |-> 1, err |-> "", n |-> tlsReload.n + 1,
                   files |-> files, loaded |-> {}, prev |-> tlsReload.loaded,
                   served |-> DOMAIN tlsCerts]
  /\ UNCHANGED <<tlsCfg, tlsLog, lbvars, hvars, rtvars, pvars, rlvars, avars, svars, cvars, gvars>>

\* loadManualCertificates called by ReloadCertificates, one iteration:
\* loadCertificate of entry k stores the certificate for its hosts under the
\* lock, or fails and ends the reload with the error; past the last entry
\* ReloadCertificates returns nil
ReloadLoad ==
  /\ tlsReload.pc = "loading"
  /\ LET k == tlsReload.k
         hosts == tlsCfg.Certificates[k].Hosts
     IN IF k > Len(tlsCfg.Certificates)
        THEN /\ tlsReload' = [tlsReload EXCEPT !.pc = "done"]
             /\ UNCHANGED tlsCerts
        ELSE IF k \notin tlsReload.files
        THEN /\ tlsReload' = [tlsReload EXCEPT !.pc = "done",
                                               !.err = "failed to load certificate"]
             /\ UNCHANGED tlsCerts
        ELSE /\ tlsCerts' = [h \in DOMAIN tlsCerts \cup Range(hosts) |->
                               IF h \in Range(hosts) THEN k ELSE tlsCerts[h]]
             /\ tlsReload' = [tlsReload EXCEPT !.k = k + 1,
                                               !.loaded = @ \cup {k}]
  /\ UNCHANGED <<tlsCfg, tlsLog, lbvars, hvars, rtvars, pvars, rlvars, avars, svars, cvars, gvars>>

NextReload ==
  \/ \E serverName \in {HostA, HostB}, pick \in {<<>>, HostA, HostB} :
       Handshake(serverName, pick)
  \/ \E files \in SUBSET (1..2) : ReloadClear(files)
  \/ ReloadLoad

SpecReload == InitSpecTLS /\ [][NextReload]_vars

(***************************************************************************)
(* Specification SpecProbes: a running checker with registered targets,    *)
(* its probe goroutines step by step, and callers of GetHealth.            *)
(***************************************************************************)
InitProbes ==
  /\ hEnabled = TRUE
  /\ \E registered \in (SUBSET HealthURLs) \ {{}} :
       /\ htargets = [u \in registered |-> NewTargetHealth]
       /\ hHist = [u \in registered |-> <<>>]
  /\ hPending = {}
  /\ hTicks = 0
  /\ hExisting = << >>
  /\ hSeen = <<>>

NextProbes ==
  \/ performHealthChecks
  \/ \E url \in HealthURLs : CheckTargetRead(url)
  \/ \E url \in HealthURLs, isHealthy \in BOOLEAN : CheckTargetStore(url, isHealthy)
  \/ \E url \in HealthURLs : GetHealth(url)

InitSpecProbes ==
  InitProbes /\ IdleLB /\ IdleRetry /\ IdleProxy /\ IdleRateLimit /\ IdleAuth /\ IdleTLS /\ IdleServer /\ IdleChecker /\ IdleLimiters

SpecProbes == InitSpecProbes /\ [][NextProbes]_vars

(***************************************************************************)
(* Specification SpecStop: a checker, enabled or not, with registered      *)
(* targets, on which Start and then Stop is called.  SpecStopFair adds     *)
(* what the runtime provides: a select with both cases ready takes each    *)
(* of them sooner or later, a goroutine that can run does, and every       *)
(* probe that was started finishes.                                        *)
(***************************************************************************)
InitStop ==
  /\ hEnabled \in BOOLEAN
  /\ \E registered \in SUBSET HealthURLs :
       /\ htargets = [u \in registered |-> NewTargetHealth]
       /\ hHist = [u \in registered |-> <<>>]
  /\ hPending = {}
  /\ hTicks = 0
  /\ hExisting = << >>
  /\ hSeen = <<>>
  /\ IdleChecker

NextStop ==
  \/ CheckerStart
  \/ runTick
  \/ runStop
  \/ CheckerStop
  \/ StopReturn
  \/ \E url \in HealthURLs, isHealthy \in BOOLEAN : probeTarget(url, isHealthy)

InitSpecStop ==
  InitStop /\ IdleLB /\ IdleRetry /\ IdleProxy /\ IdleRateLimit /\ IdleAuth /\ IdleTLS /\ IdleServer /\ IdleLimiters

SpecStop == InitSpecStop /\ [][NextStop]_vars

SpecStopFair ==
  /\ SpecStop
  /\ SF_vars(runStop)
  /\ WF_vars(StopReturn)
  /\ WF_vars(\E url \in HealthURLs, isHealthy \in BOOLEAN : probeTarget(url, isHealthy))

(***************************************************************************)
(* Specification SpecServer: one proxy server built by main, with calls of *)
(* Start and Shutdown and configuration reloads in any order.              *)
(***************************************************************************)
NextServer ==
  \/ ServerStart
  \/ ServerShutdown
  \/ \E c \in ServerCandidates : ServerReload(c)

InitSpecServer ==
  InitServer /\ IdleLB /\ IdleHealth /\ IdleRetry /\ IdleProxy /\ IdleRateLimit /\ IdleAuth /\ IdleTLS /\ IdleChecker /\ IdleLimiters

SpecServer == InitSpecServer /\ [][NextServer]_vars

(***************************************************************************)
(* Properties of the health checker (SpecHealth).                          *)
(***************************************************************************)
\* number of trailing entries of h equal to v
RECURSIVE Trailing(_, _)
Trailing(h, v) ==
  IF Len(h) = 0 \/ h[Len(h)] # v THEN 0
  ELSE 1 + Trailing(SubSeq(h, 1, Len(h) - 1), v)

\* C4: the stored status of a target goes from Healthy to Unhealthy only in a
\* step that stores a probe after which the failures since the last success
\* number at least failure_threshold, and from Unhealthy to Healthy only in a
\* step that stores a probe after which the successes since the last failure
\* number at least success_threshold.
C4_FlipOnlyPastThreshold ==
  [][\A u \in (DOMAIN htargets) \cap (DOMAIN htargets') :
       /\ (htargets[u].Status = StatusHealthy /\ htargets'[u].Status = StatusUnhealthy)
            => /\ Len(hHist'[u]) = Len(hHist[u]) + 1
               /\ Trailing(hHist'[u], FALSE) >= DefaultFailureThreshold
       /\ (htargets[u].Status = StatusUnhealthy /\ htargets'[u].Status = StatusHealthy)
            => /\ Len(hHist'[u]) = Len(hHist[u]) + 1
               /\ Trailing(hHist'[u], TRUE) >= DefaultSuccessThreshold]_vars

\* C4 witness: a target that became Healthy by two successes and was then
\* flipped to Unhealthy by three failures
C4_Witness ==
  \E u \in DOMAIN htargets :
    /\ htargets[u].Status = StatusUnhealthy
    /\ hHist[u] = <<TRUE, TRUE, FALSE, FALSE, FALSE>>

\* C5 (as claimed): every target whose reported status is Unknown is reported
\* healthy by IsHealthy.
C5_UnknownIsHealthy ==
  \A u \in HealthURLs :
    GetHealthStatus(htargets, u) = StatusUnknown => IsHealthyIn(htargets, u)

(***************************************************************************)
(* Properties of the load balancers (SpecLB).                              *)
(***************************************************************************)
\* C6: for each strategy and target list, a selection never returns a target
\* with IsHealthy = FALSE, fails when the list is empty or holds no healthy
\* target, succeeds when some target is healthy, and a failed selection is
\* answered with status 503.
C6_SelectOnlyHealthy ==
  lbN > 0 =>
    /\ lbLast.idx # 0 =>
         /\ lbLast.idx \in 1..Len(lbTargets)
         /\ lbTargets[lbLast.idx].IsHealthy
    /\ (\A i \in 1..Len(lbTargets) : ~lbTargets[i].IsHealthy)
         => (lbLast.idx = 0 /\ lbLast.err # "")
    /\ (\E i \in 1..Len(lbTargets) : lbTargets[i].IsHealthy)
         => (lbLast.idx # 0 /\ lbLast.err = "" /\ lbLast.status = 0)
    /\ lbLast.err # "" => lbLast.status = 503

\* C6 witness: an ip_hash selection over a non-empty list of unhealthy targets
\* was answered 503
C6_Witness ==
  /\ lbN > 0
  /\ lbKind = "ip_hash"
  /\ Len(lbTargets) = 2
  /\ \A i \in 1..Len(lbTargets) : ~lbTargets[i].IsHealthy
  /\ lbLast.status = 503

\* the position in the list of the r-th healthy target (r >= 1)
HealthyRank(targets, r) ==
  CHOOSE i \in 1..Len(targets) :
    /\ targets[i].IsHealthy
    /\ Cardinality({j \in 1..i : targets[j].IsHealthy}) = r

NumHealthy(targets) == Cardinality({j \in 1..Len(targets) : targets[j].IsHealthy})

\* C7: under round_robin with k >= 1 healthy targets, the i-th selection
\* (i = 0, 1, ...) on one balancer returns healthy[i mod k], and the numbers
\* of times the healthy targets were selected differ by at most 1.
C7_RoundRobinOrder ==
  (lbKind = "round_robin" /\ lbN > 0 /\ NumHealthy(lbTargets) >= 1) =>
    /\ lbLast.idx = HealthyRank(lbTargets, ((lbN - 1) % NumHealthy(lbTargets)) + 1)
    /\ \A i, j \in 1..Len(lbTargets) :
         (lbTargets[i].IsHealthy /\ lbTargets[j].IsHealthy)
           => lbCounts[i] - lbCounts[j] \in {-1, 0, 1}

\* C7 witness: targets A, B both healthy, four selections, A and B twice each
\* and the fourth selection returned B
C7_Witness ==
  /\ lbKind = "round_robin"
  /\ Len(lbTargets) = 2
  /\ \A i \in 1..2 : lbTargets[i].IsHealthy
  /\ lbN = 4
  /\ lbCounts = <<2, 2>>
  /\ lbLast.idx = 2

(***************************************************************************)
(* Properties of the retry handler (SpecRetry).                            *)
(***************************************************************************)
\* C10 (as claimed): nothing of an attempt that ended with status >= 500
\* reaches the client while retries remain, and when the handler returns the
\* client has received exactly the status and body of the last attempt.
C10_ClientSeesLastAttempt ==
  /\ rtState.pc = "loop" => rtState.client = NewClientWriter
  /\ (rtState.pc = "done" /\ Len(rtServed) > 0) =>
       /\ rtState.client.status = rtServed[Len(rtServed)].status
       /\ rtState.client.body =
            (IF rtServed[Len(rtServed)].body = "" THEN <<>>
             ELSE <<rtServed[Len(rtServed)].body>>)

(***************************************************************************)
(* Properties of the proxy server under reload (Spec).                     *)
(***************************************************************************)
\* the configurations a handler run has read so far
SnapshotsRead(r) ==
  {reqs[r].snapRoute, reqs[r].snapUp, reqs[r].snapLB, reqs[r].snapMw} \ {0}

\* C1 (as claimed): all configuration reads made for one request (route table,
\* upstream map, load-balancer map, middleware definitions) come from one and
\* the same configuration.
C1_OneSnapshotPerRequest ==
  \A r \in Reqs : Cardinality(SnapshotsRead(r)) <= 1

\* the URLs of the targets of upstream name in configuration c
UpstreamURLs(c, name) ==
  IF name \in DOMAIN c.Upstreams
  THEN {c.Upstreams[name].Targets[i].URL : i \in 1..Len(c.Upstreams[name].Targets)}
  ELSE {}

\* C2: a request is dispatched to the target it selected, a target of the
\* upstream it read, whatever is published afterwards; and a request that
\* starts after UpdateConfig has returned (no reload during its run) is routed
\* to a target of the upstream that the newly published configuration names
\* for it.
C2_ReloadRouting ==
  \A r \in Reqs :
    /\ reqs[r].sent # "" =>
         /\ reqs[r].sent = reqs[r].targets[reqs[r].idx].URL
         /\ reqs[r].sent \in UpstreamURLs(snaps[reqs[r].snapUp], reqs[r].route.Upstream)
    /\ (reqs[r].idx # 0 /\ ~reqs[r].overlap) =>
         LET c == snaps[reqs[r].startGen]
             i == findMatchingRoute(c.Routes, reqs[r].in)
         IN /\ i # 0
            /\ reqs[r].targets[reqs[r].idx].URL \in UpstreamURLs(c, c.Routes[i].Upstream)

\* C2 witness: the first request selected a target of "api" before the route
\* was repointed and was dispatched to it after the reload; the second
\* request started after UpdateConfig returned and went to a target of "new"
C2_Witness ==
  /\ Len(snaps) = 2 /\ snaps[2] = CfgB /\ cfg = 2 /\ wpc = "idle"
  /\ reqs[1].selGen = 1 /\ reqs[1].sentGen = 2 /\ reqs[1].pc = "done"
  /\ reqs[1].sent \in UpstreamURLs(CfgA, "api")
  /\ reqs[2].startGen = 2 /\ ~reqs[2].overlap /\ reqs[2].pc = "done"
  /\ reqs[2].sent \in UpstreamURLs(CfgB, "new")

\* C3: a write event whose files fail to load, or whose configuration
\* ValidateConfig rejects, leaves the live configuration, the load-balancer map
\* and the balancers unchanged, publishes nothing, and leaves the watcher ready
\* for the next event.
C3_RejectedReloadKeepsLive ==
  [][(Len(wLog') = Len(wLog) + 1
        /\ (wLog'[Len(wLog')].loaded.err # ""
              \/ ~ValidateConfig(wLog'[Len(wLog')].loaded.cfg)))
       => (/\ cfg' = cfg /\ snaps' = snaps
           /\ loadBalancers' = loadBalancers /\ lbs' = lbs
           /\ wpc' = "idle")]_vars

\* C3 witness: an invalid configuration was rejected and the next write event
\* was handled and reloaded
C3_Witness ==
  /\ Len(wLog) = 2
  /\ wLog[1].loaded.cfg = CfgBad /\ wLog[1].result = "rejected"
  /\ wLog[2].result = "reloaded"
  /\ Len(snaps) = 2 /\ cfg = 2 /\ wpc = "idle"

\* C8 (as claimed): under least_connections a request is dispatched to the
\* healthy target with the fewest requests in flight at selection time, the
\* first such target in declared order.
C8_LeastLoadedSelected ==
  \A r \in Reqs :
    (reqs[r].idx # 0 /\ lbs[reqs[r].lb].kind = "least_connections")
      => reqs[r].leastLoaded

\* the Connections of the target a request selected
SelectedConnections(r) == reqs[r].targets[reqs[r].idx].Connections

\* C9 (as claimed): the count is never negative, is one above its pre-request
\* value while the request is dispatched, and is back at its pre-request value
\* when the request has completed.
C9_IncrementedWhileDispatched ==
  \A r \in Reqs :
    /\ \A i \in 1..Len(reqs[r].targets) : reqs[r].targets[i].Connections >= 0
    /\ reqs[r].pc = "serve" => SelectedConnections(r) = reqs[r].preConn + 1
    /\ (reqs[r].pc = "done" /\ reqs[r].idx # 0)
         => SelectedConnections(r) = reqs[r].preConn

\* C9 (amended): the count is never negative; under least_connections it is one
\* above its pre-request value while the request is dispatched, under
\* round_robin and ip_hash it stays at its pre-request value; when the request
\* has completed it is back at its pre-request value.
C9_InflightRestored ==
  \A r \in Reqs :
    /\ \A i \in 1..Len(reqs[r].targets) : reqs[r].targets[i].Connections >= 0
    /\ reqs[r].pc = "serve" =>
         SelectedConnections(r) =
           reqs[r].preConn
             + (IF lbs[reqs[r].lb].kind = "least_connections" THEN 1 ELSE 0)
    /\ (reqs[r].pc = "done" /\ reqs[r].idx # 0)
         => SelectedConnections(r) = reqs[r].preConn

\* C9 witness: a least_connections request whose backend answered 503 has
\* completed, and another one is being dispatched
C9_Witness ==
  \E r, q \in Reqs :
    /\ reqs[r].pc = "done" /\ reqs[r].idx # 0 /\ reqs[r].status = 503
    /\ lbs[reqs[r].lb].kind = "least_connections"
    /\ reqs[q].pc = "serve" /\ lbs[reqs[q].lb].kind = "least_connections"
    /\ SelectedConnections(q) = 1

(***************************************************************************)
(* Properties of the retry loop (SpecRetryFair).                           *)
(***************************************************************************)
\* the status retryResponseWriter captured for attempt n (1-based)
CapturedStatus(n) == rtServed[n].status

\* C11: the wrapped handler is invoked at least once and at most attempts + 1
\* times; every attempt but the latest ended with captured status >= 500 and
\* was numbered at most attempts; a further attempt is pending exactly when
\* the latest one ended with status >= 500 and its number is at most attempts;
\* and the loop terminates.
C11_RetryBounded ==
  /\ [](LET n == Len(rtServed) IN
        /\ n <= rtAttempts + 1
        /\ \A k \in 1..(n - 1) : CapturedStatus(k) >= 500 /\ k <= rtAttempts
        /\ rtState.pc = "done" => n >= 1
        /\ n >= 1 =>
             (rtState.pc = "loop" <=> (CapturedStatus(n) >= 500 /\ n <= rtAttempts))
        /\ (n >= 1 /\ rtAttempts > 0) => rtState.rw.statusCode = CapturedStatus(n))
  /\ <>(rtState.pc = "done")

\* C11 witness: attempts = 2, the backend answered 503, 500, 503 and the loop
\* stopped after the third attempt
C11_Witness ==
  /\ rtAttempts = 2
  /\ Len(rtServed) = 3
  /\ rtServed[1].status = 503 /\ rtServed[2].status = 500 /\ rtServed[3].status = 503
  /\ rtState.pc = "done"

\* C12 (as claimed): once the deadline of the request has passed, the retry
\* handler starts no further attempt and takes no further backoff sleep.
C12_NoAttemptPastDeadline ==
  rtAttempts > 0 =>
    /\ \A k \in 2..Len(rtCtx.late) : ~rtCtx.late[k]
    /\ rtCtx.lateSleeps = 0

\* C16 (as claimed): a request whose deadline passed before the backend
\* responded is answered with status 504.
C16_TimeoutAnswered504 ==
  (rtState.pc = "done" /\ rtCtx.expired) => rtState.client.status = 504

(***************************************************************************)
(* Properties of the handler chain (SpecHandler).                          *)
(***************************************************************************)
\* C13 (as claimed): a request that matches no route is answered 404 and no
\* middleware, global or of a route, has run for it.
C13_NoMiddlewareOn404 ==
  \A r \in Reqs :
    (reqs[r].pc = "done" /\ reqs[r].route = NoRoute) =>
      /\ reqs[r].status = 404
      /\ reqs[r].global = <<>>
      /\ reqs[r].chain = <<>>

\* the request Host with a ":port" suffix removed
StripPort(host) ==
  IF host # <<>> /\ host[Len(host)] = "]" THEN host
  ELSE LET i == LastIndexOf(host, ":") IN
       IF i < 0 THEN host ELSE SubSeq(host, 1, i)

\* the match condition of one rule as C14 states it
RuleMatchesAsStated(rule, in) ==
  /\ rule.Host = <<>> \/ rule.Host = StripPort(in.Host)
  /\ \/ rule.Path = in.Path
     \/ /\ Len(rule.Path) >= 2
        /\ SubSeq(rule.Path, Len(rule.Path) - 1, Len(rule.Path)) = <<"/", "*">>
        /\ HasPrefix(in.Path, SubSeq(rule.Path, 1, Len(rule.Path) - 2))
  /\ rule.Methods = <<>> \/ \E k \in 1..Len(rule.Methods) : rule.Methods[k] = in.Method

\* C14 (as claimed): the route of a request is the first rule in declared order
\* whose host, path and method conditions hold, and none (404) if there is no
\* such rule.
C14_FirstMatchReturned ==
  \A r \in Reqs :
    reqs[r].pc # "new" =>
      LET rules == snaps[reqs[r].snapRoute].Routes
          hits == {i \in 1..Len(rules) : RuleMatchesAsStated(rules[i], reqs[r].in)}
      IN IF hits = {}
         THEN reqs[r].route = NoRoute /\ reqs[r].status = 404
         ELSE reqs[r].route = rules[CHOOSE i \in hits : \A j \in hits : i <= j]

\* the rewritten path as C15 states it: strip_prefix, then add_prefix, then
\* the regex replacement
RewriteAsStated(path, rewrite) ==
  LET stripped ==
        IF rewrite.StripPrefix # <<>> /\ HasPrefix(path, rewrite.StripPrefix)
        THEN (IF Len(path) = Len(rewrite.StripPrefix) THEN <<"/">>
              ELSE SubSeq(path, Len(rewrite.StripPrefix) + 1, Len(path)))
        ELSE path
      slashed == IF stripped # <<>> /\ stripped[1] = "/" THEN stripped
                 ELSE <<"/">> \o stripped
      added == IF rewrite.AddPrefix # <<>> THEN rewrite.AddPrefix \o slashed
               ELSE stripped
  IN IF rewrite.Regex # <<>> /\ rewrite.Replacement # <<>>
     THEN ReplaceAllLiteral(added, rewrite.Regex, rewrite.Replacement)
     ELSE added

\* C15: every dispatch of a request, the first and each retry, carries the
\* path obtained from the request path by one application of strip_prefix,
\* add_prefix and regex replacement in this order; under strip_prefix /s the
\* path /s/c becomes /c and /s becomes /; under strip /s, add /v and regex
\* v/ -> w/ the path /s/c becomes /w/c.
C15_RewriteOncePerRequest ==
  \A r \in Reqs : \A k \in 1..Len(reqs[r].sentPaths) :
    LET p == reqs[r].sentPaths[k] IN
    /\ p = RewriteAsStated(reqs[r].in.Path, reqs[r].route.Rewrite)
    /\ (reqs[r].route = RuleStatic /\ reqs[r].in.Path = <<"/","s","/","c">>)
         => p = <<"/","c">>
    /\ (reqs[r].route = RuleStatic /\ reqs[r].in.Path = <<"/","s">>) => p = <<"/">>
    /\ (reqs[r].route = RuleAny /\ reqs[r].in.Path = <<"/","s","/","c">>)
         => p = <<"/","w","/","c">>

\* C15 witness: a request for /s/c on the route with strip_prefix /s and one
\* retry was dispatched twice
C15_Witness ==
  \E r \in Reqs :
    /\ reqs[r].pc = "done"
    /\ reqs[r].route = RuleStatic
    /\ reqs[r].in.Path = <<"/","s","/","c">>
    /\ reqs[r].sentPaths = << <<"/","c">>, <<"/","c">> >>

\* no dispatch was made for the request and no Connections count was changed
NoDispatch(r) ==
  /\ reqs[r].sent = ""
  /\ reqs[r].sentPaths = <<>>
  /\ \A i \in 1..Len(reqs[r].targets) : reqs[r].targets[i].Connections = 0

\* C17: a completed request was answered 404 if no route matched, 500 if the
\* rewrite regex of its route does not compile, 503 if the upstream of its
\* route is not configured, 503 if no load balancer was found for it, 503 if
\* target selection failed, each time without a dispatch and without a change
\* of a Connections count; otherwise it was dispatched.
C17_ErrorStatuses ==
  \A r \in Reqs :
    reqs[r].pc = "done" =>
      LET c == snaps[reqs[r].snapRoute]
          rule == reqs[r].route
          targets == createTargets(c.Upstreams[rule.Upstream].Targets, htargets)
      IN IF findMatchingRoute(c.Routes, reqs[r].in) = 0
         THEN reqs[r].status = 404 /\ NoDispatch(r)
         ELSE IF /\ rule.Rewrite.Regex # <<>> /\ rule.Rewrite.Replacement # <<>>
                 /\ ~RegexCompiles(rule.Rewrite.Regex)
         THEN reqs[r].status = 500 /\ NoDispatch(r)
         ELSE IF rule.Upstream \notin DOMAIN c.Upstreams
         THEN reqs[r].status = 503 /\ NoDispatch(r)
         ELSE IF reqs[r].lb = 0
         THEN reqs[r].status = 503 /\ NoDispatch(r)
         ELSE IF \A i \in 1..Len(targets) : ~targets[i].IsHealthy
         THEN reqs[r].status = 503 /\ NoDispatch(r)
         ELSE reqs[r].sent # "" /\ reqs[r].status \in {200, 503}

\* C17 witness: one request ended 500 on the regex, the other 503 on a
\* selection over unhealthy targets
C17_Witness ==
  \E r, q \in Reqs :
    /\ reqs[r].pc = "done" /\ reqs[r].route = RuleBadRegex /\ reqs[r].status = 500
    /\ reqs[q].pc = "done" /\ reqs[q].route = RuleAny /\ reqs[q].lb # 0
    /\ reqs[q].targets # <<>> /\ reqs[q].idx = 0 /\ reqs[q].status = 503

(***************************************************************************)
(* Properties of ip_hash (SpecLB) and of the rate limiter (SpecRateLimit). *)
(***************************************************************************)
\* the client IP of a request by the stated precedence: X-Real-IP, else the
\* first entry of X-Forwarded-For, else the socket address without its port
ClientIPAsStated(req) ==
  IF req.XRealIP # <<>> THEN req.XRealIP
  ELSE IF req.XForwardedFor # <<>>
  THEN LET i == IndexOf(req.XForwardedFor, ",") IN
       IF i < 0 THEN req.XForwardedFor ELSE SubSeq(req.XForwardedFor, 1, i)
  ELSE StripPort(req.RemoteAddr)

\* C18: under ip_hash, over an unchanged target list, any two selections for
\* requests with the same client IP returned the same target, whatever was
\* selected in between, and that target is the one at position hash mod k of
\* the healthy targets in list order.
C18_IPHashSticky ==
  lbKind = "ip_hash" =>
    \A p, q \in lbSent :
      /\ ClientIPAsStated(p[1]) = ClientIPAsStated(q[1]) => p[2] = q[2]
      /\ p[2] # 0 =>
           LET healthy == HealthyTargets(lbTargets) IN
           p[2] = healthy[HashMod(hashIP(ClientIPAsStated(p[1])), Len(healthy)) + 1]

\* C18 witness: over a list of three targets of which two are healthy, the
\* two requests from 10.0.0.7 on different ports went to one target and a
\* request of another client went to the other
C18_Witness ==
  /\ lbKind = "ip_hash"
  /\ Len(lbTargets) = 3 /\ Len(HealthyTargets(lbTargets)) = 2
  /\ \E p, q, u \in lbSent :
       /\ p[1] # q[1] /\ p[1].XRealIP = <<>> /\ p[1].XForwardedFor = <<>>
       /\ q[1].XRealIP = <<>> /\ q[1].XForwardedFor = <<>>
       /\ p[2] # 0 /\ p[2] = q[2]
       /\ u[2] # 0 /\ u[2] # p[2]

\* C19 (as claimed): with key function "ip" the rate-limit key of a request is
\* its client IP by the stated precedence, the same value ip_hash hashes, so
\* that two requests from one remote IP on different ports have one key.
C19_SameClientIP ==
  rlCfg.KeyFunc = "ip" =>
    \A i, j \in DOMAIN rlLog :
      /\ rlLog[i].key = ClientIPAsStated(rlLog[i].req)
      /\ rlLog[i].key = getClientIP(rlLog[i].req)
      /\ ClientIPAsStated(rlLog[i].req) = ClientIPAsStated(rlLog[j].req)
           => rlLog[i].key = rlLog[j].key

\* C20: a request reaches the next handler exactly if Allow granted a token
\* to its key's bucket; a request that was not granted is answered 429 with
\* X-RateLimit-Limit set, X-RateLimit-Remaining 0 and Retry-After 1; with
\* burst 1 and 1 request per second a request that follows one of the same
\* key with no time elapsed is denied; and the first request of a key is
\* allowed whatever happened to other keys.
C20_RateLimit ==
  \A j \in DOMAIN rlLog :
    LET e == rlLog[j] IN
    /\ e.next <=> e.granted
    /\ ~e.granted =>
         /\ e.status = 429
         /\ e.header.XRateLimitLimit # <<>>
         /\ e.header.XRateLimitRemaining = "0"
         /\ e.header.RetryAfter = "1"
    /\ (rlCfg.Burst = 1 /\ rlCfg.RequestsPerSecond = 1) =>
         \A i \in 1..(j - 1) :
           (rlLog[i].key = e.key /\ rlLog[i].at = e.at) => ~e.next
    /\ (\A i \in 1..(j - 1) : rlLog[i].key # e.key) => e.next

\* C20 witness: burst 1, 1 request per second, no time elapsed: a first
\* request is allowed, a second one of the same key is denied, and then a
\* request of another key is allowed
C20_Witness ==
  /\ rlCfg.Burst = 1 /\ rlCfg.RequestsPerSecond = 1
  /\ Len(rlLog) = 3 /\ rlNow = 0
  /\ rlLog[1].key = rlLog[2].key /\ rlLog[3].key # rlLog[1].key
  /\ rlLog[1].next /\ ~rlLog[2].next /\ rlLog[2].status = 429
  /\ rlLog[3].next

(***************************************************************************)
(* Properties of the JWT middleware (SpecAuth).                            *)
(***************************************************************************)
\* the request path starts with one of the configured public prefixes
OnPublicPath(e) ==
  \E i \in 1..Len(auCfg.SkipPaths) : HasPrefix(e.req.Path, auCfg.SkipPaths[i])

\* C21 (as claimed): a request that was validated and passed to the next
\* handler carried a token whose alg is HS256.
C21_OnlyHS256 ==
  \A k \in DOMAIN auLog :
    (auLog[k].ans.next /\ ~auLog[k].ans.skipped) => auLog[k].req.Token.alg = "HS256"

\* the request carries, at the configured location, a token signed with the
\* configured secret, not expired, and of the configured issuer if there is one
TokenAccepted(e) ==
  /\ e.req.At = auCfg.TokenLocation
  /\ e.req.Token.alg \in {"HS256", "HS384", "HS512"}
  /\ e.req.Token.key = auCfg.JWTSecret
  /\ e.req.Token.exp # "past"
  /\ auCfg.JWTIssuer # "" => e.req.Token.iss = auCfg.JWTIssuer

\* C22: off the public prefixes the next handler is called only if the token
\* is present at the configured location, signed with the secret, not
\* expired and of the configured issuer; then X-User-ID, X-User-Email and
\* X-User-Roles (comma-joined) are set from its claims; a request without
\* such a token is answered 401 and not passed on, and every request not
\* passed on is answered 401; on a public prefix the request is passed on
\* without validation.
C22_AuthGate ==
  \A k \in DOMAIN auLog :
    LET e == auLog[k] IN
    IF OnPublicPath(e)
    THEN e.ans.next /\ e.ans.skipped /\ e.ans.status = 0
    ELSE /\ e.ans.next => TokenAccepted(e)
         /\ e.ans.next =>
              /\ e.ans.header.XUserID = e.req.Token.UserID
              /\ e.ans.header.XUserEmail = e.req.Token.Email
              /\ e.ans.header.XUserRoles = <<"a", ",", "b">>
         /\ ~TokenAccepted(e) => ~e.ans.next
         /\ ~e.ans.next <=> e.ans.status = 401

\* C22 witness: with issuer "i" configured, a good token was passed on with
\* the three headers and a token of issuer "j" was answered 401
C22_Witness ==
  /\ auCfg.JWTIssuer = "i"
  /\ Len(auLog) = 2
  /\ auLog[1].req.Token = GoodToken /\ auLog[1].ans.next
  /\ auLog[1].ans.header.XUserID = "u"
  /\ auLog[2].req.Token.iss = "j" /\ auLog[2].req.At = auCfg.TokenLocation
  /\ auLog[2].ans.status = 401

(***************************************************************************)
(* Properties of the certificate callback (SpecTLS).                       *)
(***************************************************************************)
\* a server name in lower case
ToLower(name) ==
  [i \in 1..Len(name) |->
     CASE name[i] = "A" -> "a" [] name[i] = "X" -> "x" [] OTHER -> name[i]]

\* C23 (as claimed): a server name that, without its port and in lower case,
\* is a host of a manual certificate entry gets the certificate of that entry.
C23_ManualCertificateBySNI ==
  \A k \in DOMAIN tlsLog : \A n \in 1..Len(tlsCfg.Certificates) :
    ToLower(StripPort(tlsLog[k].sni)) \in Range(tlsCfg.Certificates[n].Hosts)
      => tlsLog[k].res.err = "" /\ tlsLog[k].res.cert = n

\* C24 (as claimed): a server name found in the store, without its port, gets
\* that certificate; otherwise it is delegated to ACME if ACME is enabled;
\* with ACME disabled a non-empty server name without a manual certificate
\* gets an error and no certificate; an empty server name gets a certificate
\* of the store, or an error if the store is empty.
C24_CallbackPrecedence ==
  \A k \in DOMAIN tlsLog :
    LET sni == tlsLog[k].sni
        res == tlsLog[k].res
    IN IF sni = <<>>
       THEN IF DOMAIN tlsCerts = {} THEN res.err # "" /\ res.cert = 0
            ELSE res.err = "" /\ \E h \in DOMAIN tlsCerts : res.cert = tlsCerts[h]
       ELSE IF StripPort(sni) \in DOMAIN tlsCerts
       THEN res.err = "" /\ res.cert = tlsCerts[StripPort(sni)]
       ELSE IF tlsCfg.AutoCert THEN res.via = "acme"
       ELSE res.err # "" /\ res.cert = 0

(***************************************************************************)
(* Properties of a reload (Spec, SpecHandler).                             *)
(***************************************************************************)
\* C25 (as claimed): a request that started after a reload was published,
\* and not while one was in progress, is processed by the global chain that
\* CreateChain gives for the middleware definitions of the snapshot it read.
C25_GlobalChainOfSnapshot ==
  \A r \in Reqs :
    (reqs[r].pc # "new" /\ ~reqs[r].overlap /\ reqs[r].snapRoute > 1)
      => reqs[r].global = CreateChain(snaps[reqs[r].snapRoute].Middleware)

\* the target URLs of all upstreams of configuration c
ConfiguredURLs(c) == UNION {UpstreamURLs(c, n) : n \in DOMAIN c.Upstreams}

UpstreamHealthCheck ==
  ("http://a" :> [Enabled |-> TRUE, Path |-> "/ready", FailureThreshold |-> 1,
                  SuccessThreshold |-> 1]) @@
  ("http://b" :> [Enabled |-> FALSE, Path |-> "/health", FailureThreshold |-> 3,
                  SuccessThreshold |-> 2])

\* the stored health after the probes in hist under thresholds ft and st
RECURSIVE HealthUnder(_, _, _)
HealthUnder(hist, ft, st) ==
  IF hist = <<>> THEN NewTargetHealth
  ELSE updateTargetHealth(HealthUnder(SubSeq(hist, 1, Len(hist) - 1), ft, st),
                          hist[Len(hist)], ft, st)

\* C27 (as claimed): when a tick has completed, every target of an upstream
\* with health checks enabled has been probed on every tick so far and its
\* state follows from the outcomes under that upstream's thresholds; a
\* target of an upstream with health checks disabled has not been probed.
C27_ProbesFollowUpstreamConfig ==
  (hTicks >= 1 /\ hPending = {}) =>
    \A url \in HealthURLs :
      LET hc == UpstreamHealthCheck[url]
          hist == IF url \in DOMAIN hHist THEN hHist[url] ELSE <<>>
      IN IF hc.Enabled
         THEN /\ Len(hist) = hTicks
              /\ url \in DOMAIN htargets
              /\ htargets[url] =
                   HealthUnder(hist, hc.FailureThreshold, hc.SuccessThreshold)
         ELSE hist = <<>>

C29_ProbeStepFunction ==
  /\ [][\A u \in DOMAIN htargets' :
          LET prev == IF u \in DOMAIN htargets THEN htargets[u] ELSE NewTargetHealth
              before == IF u \in DOMAIN hHist THEN hHist[u] ELSE <<>>
              next == htargets'[u]
          IN Len(hHist'[u]) = Len(before) + 1 =>
               IF hHist'[u][Len(hHist'[u])]
               THEN /\ next.ConsecutiveSuccesses = prev.ConsecutiveSuccesses + 1
                    /\ next.ConsecutiveFailures = 0
               ELSE /\ next.ConsecutiveFailures = prev.ConsecutiveFailures + 1
                    /\ next.ConsecutiveSuccesses = 0]_vars
  /\ [](\A u \in DOMAIN htargets :
          /\ htargets[u].ConsecutiveSuccesses = 0 \/ htargets[u].ConsecutiveFailures = 0
          /\ hHist[u] \in {<<TRUE, TRUE>>, <<TRUE, TRUE, FALSE, FALSE>>,
                           <<TRUE, TRUE, FALSE, FALSE, TRUE>>, <<FALSE, FALSE, FALSE, TRUE, TRUE>>}
               => htargets[u].Status = StatusHealthy
          /\ hHist[u] \in {<<TRUE, TRUE, FALSE, FALSE, FALSE>>, <<FALSE, FALSE, FALSE>>,
                           <<FALSE, FALSE, FALSE, TRUE>>}
               => htargets[u].Status = StatusUnhealthy)

\* C29 witness: a target made Unhealthy by three failures is Healthy again
\* after two successes, its failure counter back at 0
C29_Witness ==
  \E u \in DOMAIN htargets :
    /\ hHist[u] = <<FALSE, FALSE, FALSE, TRUE, TRUE>>
    /\ htargets[u] = [Status |-> StatusHealthy, ConsecutiveFailures |-> 0,
                      ConsecutiveSuccesses |-> 2]

(***************************************************************************)
(* Properties of the probe goroutines (SpecProbes).                        *)
(***************************************************************************)
\* C30: no probe result is lost.  A tick starts only when every probe of the
\* tick before has stored; the stored state of a target is the fold of the
\* outcomes of its probes, one per tick, from the registered state; storing
\* the result for one target leaves the entries of the other targets as they
\* are; and what GetHealth returns is the state after some whole number of
\* stored outcomes of the target.
C30_NoProbeResultLost ==
  /\ [][hTicks' # hTicks => (hPending = {} /\ DOMAIN hExisting = {})]_vars
  /\ [][/\ DOMAIN htargets' = DOMAIN htargets
        /\ \A u \in DOMAIN htargets :
             htargets'[u] # htargets[u] => Len(hHist'[u]) = Len(hHist[u]) + 1]_vars
  /\ [](\A u \in DOMAIN htargets :
          /\ htargets[u] = HealthAfter(hHist[u])
          /\ Len(hHist[u]) = hTicks - (IF u \in hPending THEN 1 ELSE 0))
  /\ [](\A k \in DOMAIN hSeen :
          LET hist == IF hSeen[k].url \in DOMAIN hHist THEN hHist[hSeen[k].url]
                      ELSE <<>>
          IN /\ hSeen[k].at <= Len(hist)
             /\ hSeen[k].health = HealthAfter(SubSeq(hist, 1, hSeen[k].at)))

\* C30 witness: after three ticks over two targets, probed in different
\* orders, each target holds the fold of its own three outcomes, and a
\* GetHealth made in between returned the state after the first two
C30_Witness ==
  /\ hTicks = 3 /\ hPending = {}
  /\ hHist = ("http://a" :> <<FALSE, FALSE, FALSE>>) @@ ("http://b" :> <<TRUE, TRUE, FALSE>>)
  /\ htargets["http://a"].Status = StatusUnhealthy
  /\ htargets["http://b"] = [Status |-> StatusHealthy, ConsecutiveFailures |-> 1,
                             ConsecutiveSuccesses |-> 0]
  /\ hSeen = <<[url |-> "http://b", at |-> 2,
                health |-> [Status |-> StatusHealthy, ConsecutiveFailures |-> 0,
                            ConsecutiveSuccesses |-> 2]]>>

(***************************************************************************)
(* Properties of UpdateTarget (SpecLB).                                    *)
(***************************************************************************)
\* C35: an UpdateTarget call on a round-robin or ip-hash balancer changes
\* neither the targets nor the balancer; on a least-connections balancer it
\* changes the count of one target to the larger of 0 and count + delta and
\* nothing else; no count is ever negative.
C35_UpdateTargetEffect ==
  /\ [][lbUpd' # lbUpd =>
          /\ lbCurrent' = lbCurrent
          /\ IF lbKind = "least_connections"
             THEN \E i \in 1..Len(lbTargets), delta \in {1, -1} :
                    LET sum == lbTargets[i].Connections + delta IN
                    lbTargets' = [lbTargets EXCEPT
                                    ![i].Connections = IF sum > 0 THEN sum ELSE 0]
             ELSE lbTargets' = lbTargets]_vars
  /\ [](\A i \in 1..Len(lbTargets) : lbTargets[i].Connections >= 0)

\* C35 witness: a least-connections target at count 0 was updated by -1
C35_Witness ==
  /\ lbKind = "least_connections"
  /\ lbUpd = 1
  /\ Len(lbTargets) = 2
  /\ \A i \in 1..Len(lbTargets) : lbTargets[i].Connections = 0

(***************************************************************************)
(* Properties of selection and retries (Spec).                             *)
(***************************************************************************)
\* the requests that selected a target on balancer object i
SelectedOn(i) == {r \in Reqs : reqs[r].lb = i /\ reqs[r].idx # 0}

\* C39 (as claimed): every attempt of a request goes to the target selected
\* for it, a round-robin counter has advanced by one per request that
\* selected on it, and while a request is dispatched the count of its target
\* is one above the count before the request, whatever the number of attempts.
C39_OncePerRequest ==
  /\ \A r \in Reqs : \A k \in 1..Len(reqs[r].sentTo) :
       reqs[r].sentTo[k] = reqs[r].targets[reqs[r].idx].URL
  /\ \A i \in 1..Len(lbs) :
       lbs[i].kind = "round_robin" => lbs[i].current = Cardinality(SelectedOn(i))
  /\ \A r \in Reqs :
       reqs[r].pc = "serve" => SelectedConnections(r) = reqs[r].preConn + 1

\* C39 (amended): every attempt of a request goes to the target selected for
\* it, a round-robin counter has advanced by one per request that selected
\* on it, and while a request is dispatched its target has had one
\* UpdateTarget(+1), whatever the number of attempts: the count is one above
\* the count before the request under least_connections and equal to it
\* under round_robin and ip_hash.
C39_OncePerRequestAmended ==
  /\ \A r \in Reqs : \A k \in 1..Len(reqs[r].sentTo) :
       reqs[r].sentTo[k] = reqs[r].targets[reqs[r].idx].URL
  /\ \A i \in 1..Len(lbs) :
       lbs[i].kind = "round_robin" => lbs[i].current = Cardinality(SelectedOn(i))
  /\ \A r \in Reqs :
       (reqs[r].pc = "serve" /\ lbs[reqs[r].lb].kind = "least_connections")
         => SelectedConnections(r) = reqs[r].preConn + 1
  /\ \A r \in Reqs :
       (reqs[r].pc = "serve" /\ lbs[reqs[r].lb].kind # "least_connections")
         => SelectedConnections(r) = reqs[r].preConn

\* C39 witness: two requests selected on one round-robin balancer, whose
\* counter is 2; one was dispatched twice, both times to the target selected
\* for it, and the other is waiting for a second attempt
C39_Witness ==
  \E r, q \in Reqs :
    /\ r # q /\ reqs[r].lb # 0 /\ reqs[r].lb = reqs[q].lb
    /\ lbs[reqs[r].lb].kind = "round_robin" /\ lbs[reqs[r].lb].current = 2
    /\ reqs[r].pc = "done" /\ Len(reqs[r].sentTo) = 2
    /\ reqs[r].sentTo[1] = reqs[r].sentTo[2]
    /\ reqs[q].pc = "serve" /\ Len(reqs[q].sentTo) = 1
    /\ reqs[q].sentTo[1] # reqs[r].sentTo[1]

(***************************************************************************)
(* Properties of a route-level rate limiter (SpecRouteLimit).              *)
(***************************************************************************)
\* C33 (as claimed): when as many earlier requests of the same key as the
\* burst were let through on the route with no time elapsed since, the
\* route's rate limiter denies the request.
C33_RouteLimiterDenies ==
  \A j \in DOMAIN rlLog :
    Cardinality({i \in 1..(j - 1) : /\ rlLog[i].key = rlLog[j].key
                                    /\ rlLog[i].at = rlLog[j].at
                                    /\ rlLog[i].next}) >= rlCfg.Burst
      => (~rlLog[j].next /\ rlLog[j].status = 429)

(***************************************************************************)
(* Properties of the server life cycle (SpecServer).                       *)
(***************************************************************************)
\* C36 (as claimed): a configuration ValidateConfig accepts has every route
\* on an existing upstream, distinct middleware names, distinct orders and
\* every middleware kind among logging, rate_limit, auth and compression;
\* and Start on an accepted configuration never fails with "unknown
\* middleware type" when it builds the global chain.
C36_ValidatedChainBuilds ==
  \A k \in DOMAIN srvLog :
    LET e == srvLog[k]
        c == e.cfg
    IN /\ (e.op = "Reload" /\ e.err = "") =>
            /\ \A i \in DOMAIN c.Routes : c.Routes[i].Upstream \in DOMAIN c.Upstreams
            /\ \A i, j \in DOMAIN c.Middleware :
                 i # j => /\ c.Middleware[i].Name # c.Middleware[j].Name
                          /\ c.Middleware[i].Order # c.Middleware[j].Order
            /\ \A i \in DOMAIN c.Middleware :
                 c.Middleware[i].Type \in {"logging", "rate_limit", "auth", "compression"}
       /\ e.op = "Start" => e.err # "unknown middleware type"

\* C37 (as claimed): Start on a running server returns the "already running"
\* error and changes nothing, Shutdown on a server that is not running
\* returns nil and changes nothing, and no sequence of calls panics.
C37_GuardedLifeCycle ==
  /\ [][srvLog' # srvLog =>
         LET e == srvLog'[Len(srvLog')]
             same == UNCHANGED <<srvCfg, srvMgrEnabled, srvRunning, srvShutdown,
                                 srvHTTP, srvHTTPS, srvServing>>
         IN /\ (e.op = "Start" /\ srvRunning) =>
                 (e.err = "server is already running" /\ same)
            /\ (e.op = "Shutdown" /\ ~srvRunning) => (e.err = "" /\ same)]_vars
  /\ [](~srvPanic)

\* C38 (as claimed): a listener is serving only while the server is running,
\* and no listener of a Start call that returned an error serves.
C38_ListenersOnlyWhileRunning ==
  /\ srvServing # {} => srvRunning
  /\ \A o \in srvServing : srvLog[o.call].err = ""

(***************************************************************************)
(* Properties of certificate reloads (SpecReload).                         *)
(***************************************************************************)
\* C34 (as claimed): a handshake for a host of a manual certificate entry
\* that was loaded before the reload and loads in it gets a certificate,
\* at whatever point of ReloadCertificates it happens; and after a
\* ReloadCertificates that returned an error, a handshake for a host that
\* was in the store before the reload still gets a certificate.
C34_LookupsSurviveReload ==
  \A i \in DOMAIN tlsLog :
    LET e == tlsLog[i] IN
    /\ \A n \in e.reload.files \cap e.reload.prev :
         e.sni \in Range(tlsCfg.Certificates[n].Hosts) => e.res.err = ""
    /\ (e.reload.pc = "done" /\ e.reload.err # "" /\ e.sni \in e.reload.served)
         => e.res.err = ""

(***************************************************************************)
(* Properties of the checker's life cycle (SpecStopFair).                  *)
(***************************************************************************)
\* C31: on a checker that was started, enabled or disabled, a call of Stop
\* returns in the end, given that every probe in flight finishes; when Stop
\* has returned the run loop is not running, done is closed and no probe is
\* in flight, and from then on no tick happens and no probe is started.
C31_StopReturns ==
  /\ (ckStop = "waiting") ~> (ckStop = "returned")
  /\ [](ckStop = "returned" =>
          /\ ckLoop # "running"
          /\ (hEnabled => ckLoop = "exited")
          /\ ckDone
          /\ hPending = {})
  /\ [][ckStop = "returned" => UNCHANGED <<hPending, hTicks, htargets, ckLoop>>]_vars

\* C31 witness: Stop has returned on an enabled checker whose loop ran a tick
\* that probed a target
C31_Witness ==
  /\ ckStop = "returned"
  /\ hEnabled
  /\ hTicks >= 1
  /\ \E u \in DOMAIN hHist : Len(hHist[u]) >= 1

(***************************************************************************)
(* Properties of getLimiter and Cleanup (SpecLimiters).                    *)
(***************************************************************************)
\* the limiters made for a key
MadeFor(key) == {id \in DOMAIN glObjs : glObjs[id].key = key}
\* the deletes of a key by Cleanup
DeletesOf(key) == {i \in DOMAIN glDeleted : glDeleted[i].key = key}

\* for a key Cleanup has not removed, concurrent first requests made one
\* limiter, the map holds it, and every request that got a limiter for the
\* key got that one
OneLimiterPerKey ==
  \A key \in LimiterKeys :
    DeletesOf(key) = {} =>
      /\ Cardinality(MadeFor(key)) <= 1
      /\ key \in DOMAIN glLimiters => MadeFor(key) = {glLimiters[key]}
      /\ \A c \in 1..NumCallers :
           (glCallers[c].pc = "have" /\ glCallers[c].key = key)
             => (key \in DOMAIN glLimiters /\ glCallers[c].limiter = glLimiters[key])

\* C32 (as claimed): getLimiter makes one limiter per key and hands the same
\* one to every caller, and a limiter Cleanup removes has a full bucket
\* (tokens = burst) when it is removed, never consumed tokens.
C32_GetLimiterAndCleanup ==
  /\ OneLimiterPerKey
  /\ \A i \in DOMAIN glDeleted : glDeleted[i].tokens = LimiterBurst

====
